---------------------------- MODULE Spec2Model ----------------------------
(***************************************************************************)
(* Model of musa/core.py: the training engine (train_engine) and the two   *)
(* synthesis drivers (synthesize, att_synthesize) with their               *)
(* duration-to-frame expansion loop and unvoiced-frame post-processing,    *)
(* and the six epoch runners (train / eval for the duration, the acoustic  *)
(* and the attention-acoustic model).                                      *)
(*                                                                         *)
(* Conventions.                                                            *)
(*  - A Python value that may be None is a sequence of length <= 1:        *)
(*    <<>> is None, <<x>> is the value x.                                  *)
(*  - Monitored validation scores are integers in hundredths (0.95 is 95). *)
(*  - Times are exact rationals [n, d] (n/d, d > 0) in milliseconds; the   *)
(*    5 ms stride of the source (0.005 s) is Stride.  Floating-point       *)
(*    rounding of the source's float arithmetic is not modelled.           *)
(*  - A float that only ever gets assigned and compared for equality is    *)
(*    kept as a decimal literal [m, e] meaning m * 10^e.                   *)
(***************************************************************************)
EXTENDS Integers, Sequences, FiniteSets, TLC

VARIABLES
    \* ---- train_engine: arguments
    epochs,         \* epochs (max number of epochs)
    eval_fn,        \* TRUE iff an eval_fn is supplied
    val_dloader,    \* TRUE iff val_dloader is not None
    eval_target,    \* TRUE iff eval_target names a monitored metric
    eval_patience,  \* <<>> (None) or <<p>>
    \* ---- train_engine: locals
    epoch,          \* loop variable of `for epoch in range(epochs)`
    tr_loss,        \* tr_loss[k]: one entry per epoch (the epoch that produced it)
    va_loss,        \* va_loss[eval_target]: monitored value of every evaluated epoch
    min_va_loss,
    patience,       \* <<>> (None) or <<counter>>
    best_model,
    val_scores,     \* <<>> or <<val_scores[eval_target]>> of the current epoch
    \* ---- train_engine: position and effects on the outside world
    eng_pc,         \* "idle" | "train" | "eval" | "monitor" | "save" | "done" | "stopped" | "raised"
    eng_err,        \* "" or the exception that ended the run
    n_train,        \* number of train_fn invocations
    n_eval,         \* number of eval_fn invocations
    ckpts,          \* model.save calls: sequence of [epoch, best_val]
    saved_tr,       \* what np.save last wrote for the training history
    saved_va,       \* what np.save last wrote for the validation history
    \* ---- synthesize / att_synthesize: arguments and inputs
    driver,         \* "synthesize" | "att_synthesize" | "none"
    force_dur,
    lab_codes,      \* sequence of label-code vectors, one per unit
    durstats,       \* [min, max] of the speaker
    tstamp_durs,    \* tstamps_to_dur(tstamps): per-unit durations (ms) of the label file
    \* ---- synthesize / att_synthesize: locals
    ndurs,          \* per-unit normalized durations (rationals)
    dur,            \* per-unit physical durations (rationals, ms)
    t,              \* unit index of the expansion loop (1-based)
    reldur_c,       \* elapsed time within the unit (ms)
    aco_inputs,     \* the frame queries
    aco_seqlen,
    acot,           \* de-normalized, post-filtered acoustic output, one record per frame
    fv, lf0, uv,    \* channels after post-processing
    \* ---- synthesize / att_synthesize: position and effects
    syn_pc,         \* "idle" | "durs" | "expand" | "aco" | "post" | "write_cc" | "write_lf0" | "write_fv" | "vocode" | "done" | "raised"
    syn_err,
    frame_unit,     \* history: the unit each emitted frame was emitted for
    dur_model_calls,\* [eval, forward]: calls made on the duration model
    files,          \* write_aco_file calls: sequence of [ext, data]
    vocoder_calls,  \* aco2wav calls
    \* ---- epoch runners: arguments
    runner,         \* the function called, or "none"
    tr_opts,        \* tr_opts / va_opts: the option mapping, popped in place
    opts_in,        \* history: the option mapping as the caller passed it
    log_freq,
    num_batches,    \* len(dloader)
    crit_nll,       \* TRUE iff criterion is F.nll_loss (training runners)
    mo_model,       \* TRUE iff the model returns a per-speaker dict (multi-output)
    stats_arg,      \* TRUE iff the stats argument is not None (evaluation runners)
    reset_batch_state,
    \* ---- epoch runners: locals
    stateful,
    spk2stats,      \* TRUE iff spk2acostats / spk2durstats is not None
    idx2spk,        \* TRUE iff idx2spk is not None
    mulout,
    round_N,
    b_idx,          \* number of batches fetched so far (b_idx + 1 inside the body)
    batch,          \* <<>> or <<the batch being processed>>
    spk2hid_states, \* speaker -> cached hidden state
    spk2out_states, \* speaker -> cached output state
    states,         \* <<>> or <<the duration model's state>>
    spk_loss_batch, \* speaker -> loss of its latest batch (multi-output logging)
    epoch_losses,   \* accumulator name -> sequence of values
    nosil,          \* <<>> (None) or <<no-silence metric of the batch>>
    preds,          \* evaluation buffer: one entry per retained step
    pe_start_idx,
    \* ---- epoch runners: position and effects
    run_pc,         \* "idle" | "opts" | "loop" | "update" | "finish" | "done" | "raised"
    run_err,
    fwd_log,        \* model(...) calls: [b, spk, bsz, hid, out, pe]
    init_log,       \* batches (1-based) at which state initialization was called
    opt_log,        \* optimizer / gradient calls: [b, op]
    params,         \* version of the model parameters (number of optimizer steps applied)
    log_records,    \* emitted log records: [b, mo, losses]
    metric_log,     \* epoch-level metric computations: [b, len, over]
    log_writer,     \* TRUE iff a log sink is attached (log_writer is not None)
    sink_log,       \* what was written to the log sink, in order
    result,         \* <<>> or <<the keys of the mapping an evaluation runner returned>>
    later_epoch     \* TRUE iff an earlier epoch of the same runner has returned

engVars == <<epochs, eval_fn, val_dloader, eval_target, eval_patience, epoch,
             tr_loss, va_loss, min_va_loss, patience, best_model, val_scores,
             eng_pc, eng_err, n_train, n_eval, ckpts, saved_tr, saved_va>>

synVars == <<driver, force_dur, lab_codes, durstats, tstamp_durs, ndurs, dur, t,
             reldur_c, aco_inputs, aco_seqlen, acot, fv, lf0, uv, syn_pc, syn_err,
             frame_unit, dur_model_calls, files, vocoder_calls>>

runVars == <<runner, tr_opts, opts_in, log_freq, num_batches, crit_nll, mo_model, stats_arg,
             reset_batch_state, stateful, spk2stats, idx2spk, mulout, round_N, b_idx,
             batch, spk2hid_states, spk2out_states, states, spk_loss_batch,
             epoch_losses, nosil, preds, pe_start_idx, run_pc, run_err, fwd_log,
             init_log, opt_log, params, log_records, metric_log, log_writer,
             sink_log, result, later_epoch>>

vars == <<engVars, synVars, runVars>>

----------------------------------------------------------------------------
(* Bounds of the model *)

MaxEpochs == 5

MaxPatience == 3

\* Monitored values a validation epoch may return (hundredths).
ScoreChoices == {90, 95, 96, 97, 100}

\* np.inf: above every monitored value.
Inf == 1000000

----------------------------------------------------------------------------
(* train_engine *)

\* The state in which the engine has not been called (other components run).
EngIdle ==
    /\ epochs = 0 /\ eval_fn = FALSE /\ val_dloader = FALSE
    /\ eval_target = FALSE /\ eval_patience = <<>>
    /\ epoch = 0 /\ tr_loss = <<>> /\ va_loss = <<>> /\ min_va_loss = Inf
    /\ patience = <<>> /\ best_model = FALSE /\ val_scores = <<>>
    /\ eng_pc = "idle" /\ eng_err = "" /\ n_train = 0 /\ n_eval = 0
    /\ ckpts = <<>> /\ saved_tr = <<>> /\ saved_va = <<>>

\* The state in which no synthesis driver has been called.
SynIdle ==
    /\ driver = "none" /\ force_dur = FALSE /\ lab_codes = <<>>
    /\ durstats = [min |-> 0, max |-> 1] /\ tstamp_durs = <<>>
    /\ ndurs = <<>> /\ dur = <<>> /\ t = 0 /\ reldur_c = 0
    /\ aco_inputs = <<>> /\ aco_seqlen = 0 /\ acot = <<>>
    /\ fv = <<>> /\ lf0 = <<>> /\ uv = <<>>
    /\ syn_pc = "idle" /\ syn_err = "" /\ frame_unit = <<>>
    /\ dur_model_calls = [eval |-> 0, forward |-> 0]
    /\ files = <<>> /\ vocoder_calls = 0

\* The empty mapping.
EmptyMap == [x \in {} |-> TRUE]

\* The state in which no epoch runner has been called.
RunIdle ==
    /\ runner = "none" /\ tr_opts = EmptyMap /\ opts_in = EmptyMap
    /\ log_freq = 1 /\ num_batches = 0
    /\ crit_nll = FALSE /\ mo_model = FALSE /\ stats_arg = FALSE
    /\ reset_batch_state = FALSE /\ stateful = FALSE /\ spk2stats = FALSE
    /\ idx2spk = FALSE /\ mulout = FALSE /\ round_N = 1 /\ b_idx = 0
    /\ batch = <<>> /\ spk2hid_states = EmptyMap /\ spk2out_states = EmptyMap
    /\ states = <<>> /\ spk_loss_batch = EmptyMap /\ epoch_losses = EmptyMap
    /\ nosil = <<>> /\ preds = <<>> /\ pe_start_idx = 0
    /\ run_pc = "idle" /\ run_err = "" /\ fwd_log = <<>> /\ init_log = <<>>
    /\ opt_log = <<>> /\ params = 0 /\ log_records = <<>> /\ metric_log = <<>>
    /\ log_writer = FALSE /\ sink_log = <<>> /\ result = <<>> /\ later_epoch = FALSE

\* Lines 20-28: the call and the locals set before the loop.
EngInit ==
    /\ epochs \in 0..MaxEpochs
    /\ eval_fn \in BOOLEAN
    /\ val_dloader \in BOOLEAN
    /\ eval_target \in BOOLEAN
    /\ eval_patience \in {<<>>} \cup {<<p>> : p \in 0..MaxPatience}
    /\ epoch = 0
    /\ tr_loss = <<>>
    /\ va_loss = <<>>
    /\ min_va_loss = Inf
    /\ patience = eval_patience
    /\ best_model = FALSE
    /\ val_scores = <<>>
    /\ eng_pc = "train"
    /\ eng_err = ""
    /\ n_train = 0
    /\ n_eval = 0
    /\ ckpts = <<>>
    /\ saved_tr = <<>>
    /\ saved_va = <<>>
    /\ SynIdle
    /\ RunIdle

\* Line 29, range(epochs) exhausted: the function returns.
EngLoopEnd ==
    /\ eng_pc = "train"
    /\ epoch >= epochs
    /\ eng_pc' = "done"
    /\ UNCHANGED <<epochs, eval_fn, val_dloader, eval_target, eval_patience, epoch,
                   tr_loss, va_loss, min_va_loss, patience, best_model, val_scores,
                   eng_err, n_train, n_eval, ckpts, saved_tr, saved_va>>
    /\ UNCHANGED <<synVars, runVars>>

\* Lines 30-39: best_model = False, the training pass, its metrics appended.
EngTrain ==
    /\ eng_pc = "train"
    /\ epoch < epochs
    /\ best_model' = FALSE
    /\ n_train' = n_train + 1
    /\ tr_loss' = Append(tr_loss, epoch)
    /\ eng_pc' = "eval"
    /\ UNCHANGED <<epochs, eval_fn, val_dloader, eval_target, eval_patience, epoch,
                   va_loss, min_va_loss, patience, val_scores,
                   eng_err, n_eval, ckpts, saved_tr, saved_va>>
    /\ UNCHANGED <<synVars, runVars>>

\* Line 40, eval_fn falsy: straight to the checkpoint.
EngEvalSkip ==
    /\ eng_pc = "eval"
    /\ ~eval_fn
    /\ eng_pc' = "save"
    /\ UNCHANGED <<epochs, eval_fn, val_dloader, eval_target, eval_patience, epoch,
                   tr_loss, va_loss, min_va_loss, patience, best_model, val_scores,
                   eng_err, n_train, n_eval, ckpts, saved_tr, saved_va>>
    /\ UNCHANGED <<synVars, runVars>>

\* Lines 41-43: eval_fn given, val_dloader None: ValueError.
EngNoValLoader ==
    /\ eng_pc = "eval"
    /\ eval_fn
    /\ ~val_dloader
    /\ eng_pc' = "raised"
    /\ eng_err' = "ValueError"
    /\ UNCHANGED <<epochs, eval_fn, val_dloader, eval_target, eval_patience, epoch,
                   tr_loss, va_loss, min_va_loss, patience, best_model, val_scores,
                   n_train, n_eval, ckpts, saved_tr, saved_va>>
    /\ UNCHANGED <<synVars, runVars>>

\* Lines 44-48: the evaluation pass; it returns the epoch's scores.
EngEval ==
    /\ eng_pc = "eval"
    /\ eval_fn
    /\ val_dloader
    /\ \E v \in ScoreChoices : val_scores' = <<v>>
    /\ n_eval' = n_eval + 1
    /\ eng_pc' = "monitor"
    /\ UNCHANGED <<epochs, eval_fn, val_dloader, eval_target, eval_patience, epoch,
                   tr_loss, va_loss, min_va_loss, patience, best_model,
                   eng_err, n_train, ckpts, saved_tr, saved_va>>
    /\ UNCHANGED <<synVars, runVars>>

\* The mutant of EngMonitorSkip: the scores are recorded without a target.
EngMonitorSkip_recorded ==
    /\ eng_pc = "monitor"
    /\ ~eval_target
    /\ va_loss' = Append(va_loss, val_scores[1])
    /\ eng_pc' = "save"
    /\ UNCHANGED <<epochs, eval_fn, val_dloader, eval_target, eval_patience, epoch,
                   tr_loss, min_va_loss, patience, best_model, val_scores,
                   eng_err, n_train, n_eval, ckpts, saved_tr, saved_va>>
    /\ UNCHANGED <<synVars, runVars>>

\* Line 49, eval_target falsy: no monitoring.
EngMonitorSkip ==
    /\ eng_pc = "monitor"
    /\ ~eval_target
    /\ eng_pc' = "save"
    /\ UNCHANGED <<epochs, eval_fn, val_dloader, eval_target, eval_patience, epoch,
                   tr_loss, va_loss, min_va_loss, patience, best_model, val_scores,
                   eng_err, n_train, n_eval, ckpts, saved_tr, saved_va>>
    /\ UNCHANGED <<synVars, runVars>>

\* The mutant of EngNoPatience: the missing patience is ignored and the epoch goes on.
EngNoPatience_ignored ==
    /\ eng_pc = "monitor"
    /\ eval_target
    /\ eval_patience = <<>>
    /\ eng_pc' = "save"
    /\ UNCHANGED <<epochs, eval_fn, val_dloader, eval_target, eval_patience, epoch,
                   tr_loss, va_loss, min_va_loss, patience, best_model, val_scores,
                   eng_err, n_train, n_eval, ckpts, saved_tr, saved_va>>
    /\ UNCHANGED <<synVars, runVars>>

\* Lines 50-53: eval_target given, eval_patience None: ValueError.
EngNoPatience ==
    /\ eng_pc = "monitor"
    /\ eval_target
    /\ eval_patience = <<>>
    /\ eng_pc' = "raised"
    /\ eng_err' = "ValueError"
    /\ UNCHANGED <<epochs, eval_fn, val_dloader, eval_target, eval_patience, epoch,
                   tr_loss, va_loss, min_va_loss, patience, best_model, val_scores,
                   n_train, n_eval, ckpts, saved_tr, saved_va>>
    /\ UNCHANGED <<synVars, runVars>>

\* The mutant of Improved: an equal value counts as an improvement.
Improved_orEqual(v, m) == v <= m

\* Line 62: val_scores[eval_target] < min_va_loss.
Improved(v, m) == v < m

\* The mutant of EngImproved: the patience counter is not reset.
EngImproved_noReset ==
    /\ eng_pc = "monitor"
    /\ eval_target
    /\ eval_patience # <<>>
    /\ Improved(val_scores[1], min_va_loss)
    /\ va_loss' = Append(va_loss, val_scores[1])
    /\ min_va_loss' = val_scores[1]
    /\ best_model' = TRUE
    /\ eng_pc' = "save"
    /\ UNCHANGED <<epochs, eval_fn, val_dloader, eval_target, eval_patience, epoch,
                   tr_loss, patience, val_scores,
                   eng_err, n_train, n_eval, ckpts, saved_tr, saved_va>>
    /\ UNCHANGED <<synVars, runVars>>

\* Lines 54-58 and 62-67: the score is recorded; it improved.
EngImproved ==
    /\ eng_pc = "monitor"
    /\ eval_target
    /\ eval_patience # <<>>
    /\ Improved(val_scores[1], min_va_loss)
    /\ va_loss' = Append(va_loss, val_scores[1])
    /\ min_va_loss' = val_scores[1]
    /\ best_model' = TRUE
    /\ patience' = eval_patience
    /\ eng_pc' = "save"
    /\ UNCHANGED <<epochs, eval_fn, val_dloader, eval_target, eval_patience, epoch,
                   tr_loss, val_scores,
                   eng_err, n_train, n_eval, ckpts, saved_tr, saved_va>>
    /\ UNCHANGED <<synVars, runVars>>

\* Lines 54-58 and 68-75: the score is recorded; it did not improve; the
\* counter is decremented and `break` leaves the loop when it is 0.
EngNotImproved ==
    /\ eng_pc = "monitor"
    /\ eval_target
    /\ eval_patience # <<>>
    /\ ~Improved(val_scores[1], min_va_loss)
    /\ va_loss' = Append(va_loss, val_scores[1])
    /\ patience' = <<patience[1] - 1>>
    /\ eng_pc' = IF patience'[1] = 0 THEN "stopped" ELSE "save"
    /\ UNCHANGED <<epochs, eval_fn, val_dloader, eval_target, eval_patience, epoch,
                   tr_loss, min_va_loss, best_model, val_scores,
                   eng_err, n_train, n_eval, ckpts, saved_tr, saved_va>>
    /\ UNCHANGED <<synVars, runVars>>

\* Lines 76-84: model.save, then np.save of every history; next epoch.
EngSave ==
    /\ eng_pc = "save"
    /\ ckpts' = Append(ckpts, [epoch |-> epoch, best_val |-> best_model])
    /\ saved_tr' = tr_loss
    /\ saved_va' = IF eval_target THEN va_loss ELSE saved_va
    /\ epoch' = epoch + 1
    /\ eng_pc' = "train"
    /\ UNCHANGED <<epochs, eval_fn, val_dloader, eval_target, eval_patience,
                   tr_loss, va_loss, min_va_loss, patience, best_model, val_scores,
                   eng_err, n_train, n_eval>>
    /\ UNCHANGED <<synVars, runVars>>

EngNext ==
    \/ EngLoopEnd
    \/ EngTrain
    \/ EngEvalSkip
    \/ EngNoValLoader
    \/ EngEval
    \/ EngMonitorSkip
    \/ EngNoPatience
    \/ EngImproved
    \/ EngNotImproved
    \/ EngSave

----------------------------------------------------------------------------
(* Exact rationals n/d with d > 0 *)

Rat(n, d) == IF d < 0 THEN [n |-> 0 - n, d |-> 0 - d] ELSE [n |-> n, d |-> d]

RatLe(a, b) == a.n * b.d <= b.n * a.d

RatLt(a, b) == a.n * b.d < b.n * a.d

RatEq(a, b) == a.n * b.d = b.n * a.d

----------------------------------------------------------------------------
(* Bounds and input domains of the synthesis drivers *)

MaxUnits == 2

\* Frames of the acoustic output that vary freely; later frames repeat the last.
MaxVaried == 2

\* Label-code vectors of a unit (lab_enc output).
CodeChoices == {<<0, 1>>, <<1, 0>>}

\* Unit durations (ms) read from the label timestamps.
DurChoices == {0, 3, 5, 12, 20}

\* Normalized durations the duration model may predict.
NdurChoices == {Rat(a, 2) : a \in 0..3}

\* Speaker duration statistics (ms), min < max.
StatChoices == {[min |-> 10, max |-> 15]}

\* Per-frame acoustic output after denorm_minmax and apply_pf: the voicing
\* value in tenths, the spectral tilt and the log-F0.
UvChoices == {5, 8}

FvChoices == {900, 1200}

Lf0Choices == {[m |-> 5, e |-> 0]}

AcoFrameChoices == [uv : UvChoices, fv : FvChoices, lf0 : Lf0Choices]

AcoOutputs(n) ==
    {[i \in 1..n |-> IF i <= MaxVaried THEN h[i] ELSE h[MaxVaried]] :
        h \in [1..MaxVaried -> AcoFrameChoices]}

----------------------------------------------------------------------------
(* synthesize / att_synthesize *)

\* Line 148 / 255: reldur_c += 0.005 (5 ms).
Stride == 5

\* Lines 173, 174 / 277, 278: the spectral-tilt sentinel.
FV_UNVOICED == 1000

\* Line 175 / 279: the log-F0 sentinel, -10000000000.0.
LF0_UNVOICED == [m |-> 0 - 1, e |-> 10]

\* np.round on a value given in tenths: round half to even.
NpRound(x10) ==
    LET q == x10 \div 10
        r == x10 % 10
    IN  IF r < 5 THEN q
        ELSE IF r > 5 THEN q + 1
        ELSE IF q % 2 = 0 THEN q ELSE q + 1

\* The mutant of UsesDurModel: the duration model is used whatever force_dur.
UsesDurModel_always == TRUE

\* Lines 90, 121, 130 / 197, 228, 237: the duration model is put in evaluation
\* mode and run only when force_dur is not set.
UsesDurModel == ~force_dur

\* Lines 86-119 / 193-225: the call; the label file is parsed and encoded.
\* The timestamps are drawn only when they are read (force_dur).
SynInit ==
    /\ driver \in {"synthesize", "att_synthesize"}
    /\ force_dur \in BOOLEAN
    /\ \E n \in 1..MaxUnits :
          /\ lab_codes \in [1..n -> CodeChoices]
          /\ tstamp_durs \in IF force_dur THEN [1..n -> DurChoices] ELSE {<<>>}
    /\ durstats \in StatChoices
    /\ ndurs = <<>>
    /\ dur = <<>>
    /\ t = 0
    /\ reldur_c = 0
    /\ aco_inputs = <<>>
    /\ aco_seqlen = 0
    /\ acot = <<>>
    /\ fv = <<>>
    /\ lf0 = <<>>
    /\ uv = <<>>
    /\ syn_pc = "durs"
    /\ syn_err = ""
    /\ frame_unit = <<>>
    /\ dur_model_calls = [eval |-> IF UsesDurModel THEN 1 ELSE 0, forward |-> 0]
    /\ files = <<>>
    /\ vocoder_calls = 0
    /\ EngIdle
    /\ RunIdle

\* Lines 121-129 / 228-236: durations from the label file, min-max normalized.
SynForceDurs ==
    /\ syn_pc = "durs"
    /\ force_dur
    /\ dur' = [i \in 1..Len(tstamp_durs) |-> Rat(tstamp_durs[i], 1)]
    /\ ndurs' = [i \in 1..Len(tstamp_durs) |->
                    Rat(tstamp_durs[i] - durstats.min, durstats.max - durstats.min)]
    /\ t' = 1
    /\ reldur_c' = 0
    /\ syn_pc' = "expand"
    /\ UNCHANGED <<driver, force_dur, lab_codes, durstats, tstamp_durs,
                   aco_inputs, aco_seqlen, acot, fv, lf0, uv, syn_err,
                   frame_unit, dur_model_calls, files, vocoder_calls>>
    /\ UNCHANGED <<engVars, runVars>>

\* Line 135 / 242: dur = ndurs * min_dur - max_dur + min_dur.
DenormDur(nd, stats) == Rat(nd.n * stats.min - stats.max * nd.d + stats.min * nd.d, nd.d)

\* Lines 130-135 / 237-242: durations predicted by the duration model.
SynPredictDurs ==
    /\ syn_pc = "durs"
    /\ UsesDurModel
    /\ \E nd \in [1..Len(lab_codes) -> NdurChoices] :
          /\ ndurs' = nd
          /\ dur' = [i \in 1..Len(lab_codes) |-> DenormDur(nd[i], durstats)]
    /\ dur_model_calls' = [dur_model_calls EXCEPT !.forward = @ + 1]
    /\ t' = 1
    /\ reldur_c' = 0
    /\ syn_pc' = "expand"
    /\ UNCHANGED <<driver, force_dur, lab_codes, durstats, tstamp_durs,
                   aco_inputs, aco_seqlen, acot, fv, lf0, uv, syn_err,
                   frame_unit, files, vocoder_calls>>
    /\ UNCHANGED <<engVars, runVars>>

\* The mutant of LoopCond: both drivers use the exclusive test.
LoopCond_exclusive(drv, c, d) == RatLt(Rat(c, 1), d)

\* Line 145: while reldur_c <= dur_t (synthesize);
\* line 252: while reldur_c < dur_t (att_synthesize).
LoopCond(drv, c, d) ==
    IF drv = "synthesize" THEN RatLe(Rat(c, 1), d) ELSE RatLt(Rat(c, 1), d)

\* The mutant of Query: the two trailing scalars are swapped.
Query_swapped(code, n_reldur, ndur) == code \o <<ndur, n_reldur>>

\* Lines 149-150 / 256-257: np.concatenate((lab_codes[t, 0, :], [n_reldur, ndur])).
Query(code, n_reldur, ndur) == code \o <<n_reldur, ndur>>

\* The mutant of RelPos: the position is taken after the shift.
RelPos_afterShift(c, d) == Rat((c + Stride) * d.d, d.n)

\* Line 146 / 253: n_reldur = float(reldur_c) / dur_t.
RelPos(c, d) == Rat(c * d.d, d.n)

\* Lines 145-150 / 252-257: one iteration of the while loop.
SynEmitFrame ==
    /\ syn_pc = "expand"
    /\ t <= Len(ndurs)
    /\ LoopCond(driver, reldur_c, dur[t])
    /\ dur[t].n # 0
    /\ aco_inputs' = Append(aco_inputs,
                            Query(lab_codes[t], RelPos(reldur_c, dur[t]), ndurs[t]))
    /\ frame_unit' = Append(frame_unit, t)
    /\ reldur_c' = reldur_c + Stride
    /\ UNCHANGED <<driver, force_dur, lab_codes, durstats, tstamp_durs, ndurs, dur, t,
                   aco_seqlen, acot, fv, lf0, uv, syn_pc, syn_err,
                   dur_model_calls, files, vocoder_calls>>
    /\ UNCHANGED <<engVars, runVars>>

\* Line 146 / 253 with dur_t = 0: the float division raises ZeroDivisionError.
SynDivZero ==
    /\ syn_pc = "expand"
    /\ t <= Len(ndurs)
    /\ LoopCond(driver, reldur_c, dur[t])
    /\ dur[t].n = 0
    /\ syn_pc' = "raised"
    /\ syn_err' = "ZeroDivisionError"
    /\ UNCHANGED <<driver, force_dur, lab_codes, durstats, tstamp_durs, ndurs, dur, t,
                   reldur_c, aco_inputs, aco_seqlen, acot, fv, lf0, uv,
                   frame_unit, dur_model_calls, files, vocoder_calls>>
    /\ UNCHANGED <<engVars, runVars>>

\* Lines 140-145 / 247-252: the while test fails; next unit, reldur_c = 0.
SynNextUnit ==
    /\ syn_pc = "expand"
    /\ t <= Len(ndurs)
    /\ ~LoopCond(driver, reldur_c, dur[t])
    /\ t' = t + 1
    /\ reldur_c' = 0
    /\ UNCHANGED <<driver, force_dur, lab_codes, durstats, tstamp_durs, ndurs, dur,
                   aco_inputs, aco_seqlen, acot, fv, lf0, uv, syn_pc, syn_err,
                   frame_unit, dur_model_calls, files, vocoder_calls>>
    /\ UNCHANGED <<engVars, runVars>>

\* Line 151 / 258: aco_seqlen = len(aco_inputs).
SynExpandEnd ==
    /\ syn_pc = "expand"
    /\ t > Len(ndurs)
    /\ aco_seqlen' = Len(aco_inputs)
    /\ syn_pc' = "aco"
    /\ UNCHANGED <<driver, force_dur, lab_codes, durstats, tstamp_durs, ndurs, dur, t,
                   reldur_c, aco_inputs, acot, fv, lf0, uv, syn_err,
                   frame_unit, dur_model_calls, files, vocoder_calls>>
    /\ UNCHANGED <<engVars, runVars>>

\* Lines 152-153 / 259-260 with no frame: view(0, 1, -1) cannot infer the
\* last dimension of an empty tensor and raises.
SynEmptyBatch ==
    /\ syn_pc = "aco"
    /\ aco_seqlen = 0
    /\ syn_pc' = "raised"
    /\ syn_err' = "RuntimeError"
    /\ UNCHANGED <<driver, force_dur, lab_codes, durstats, tstamp_durs, ndurs, dur, t,
                   reldur_c, aco_inputs, aco_seqlen, acot, fv, lf0, uv,
                   frame_unit, dur_model_calls, files, vocoder_calls>>
    /\ UNCHANGED <<engVars, runVars>>

\* Lines 152-167 / 259-271: the acoustic model's output, de-normalized and
\* post-filtered, one row per frame.
SynAcoModel ==
    /\ syn_pc = "aco"
    /\ aco_seqlen > 0
    /\ acot' \in AcoOutputs(aco_seqlen)
    /\ syn_pc' = "post"
    /\ UNCHANGED <<driver, force_dur, lab_codes, durstats, tstamp_durs, ndurs, dur, t,
                   reldur_c, aco_inputs, aco_seqlen, fv, lf0, uv, syn_err,
                   frame_unit, dur_model_calls, files, vocoder_calls>>
    /\ UNCHANGED <<engVars, runVars>>

\* The mutant of PostFv: the unvoiced override is dropped (only the floor stays).
PostFv_noUnvoiced(row) == IF row.fv < FV_UNVOICED THEN FV_UNVOICED ELSE row.fv

\* The mutant of PostFv: the floor is dropped (only the unvoiced override stays).
PostFv_noFloor(row) == IF NpRound(row.uv) = 0 THEN FV_UNVOICED ELSE row.fv

\* Lines 173-174 / 277-278: fv[uv == 0] = 1000.0, then fv[fv < 1000] = 1000.0.
PostFv(row) ==
    LET fv1 == IF NpRound(row.uv) = 0 THEN FV_UNVOICED ELSE row.fv
    IN  IF fv1 < FV_UNVOICED THEN FV_UNVOICED ELSE fv1

\* Line 175 / 279: lf0[uv == 0] = -10000000000.0.
PostLf0(row) == IF NpRound(row.uv) = 0 THEN LF0_UNVOICED ELSE row.lf0

\* Lines 168-178 / 272-282: channel split and unvoiced-frame policy; the
\* length assertion compares two columns of the same array and cannot fail.
SynPost ==
    /\ syn_pc = "post"
    /\ uv' = [i \in 1..Len(acot) |-> NpRound(acot[i].uv)]
    /\ fv' = [i \in 1..Len(acot) |-> PostFv(acot[i])]
    /\ lf0' = [i \in 1..Len(acot) |-> PostLf0(acot[i])]
    /\ syn_pc' = "write_cc"
    /\ UNCHANGED <<driver, force_dur, lab_codes, durstats, tstamp_durs, ndurs, dur, t,
                   reldur_c, aco_inputs, aco_seqlen, acot, syn_err,
                   frame_unit, dur_model_calls, files, vocoder_calls>>
    /\ UNCHANGED <<engVars, runVars>>

\* Lines 180-181 (synthesize): the array is passed to os.path.join instead of
\* write_aco_file; the call raises TypeError and nothing is written.
SynWriteRaises ==
    /\ syn_pc = "write_cc"
    /\ driver = "synthesize"
    /\ syn_pc' = "raised"
    /\ syn_err' = "TypeError"
    /\ UNCHANGED <<driver, force_dur, lab_codes, durstats, tstamp_durs, ndurs, dur, t,
                   reldur_c, aco_inputs, aco_seqlen, acot, fv, lf0, uv,
                   frame_unit, dur_model_calls, files, vocoder_calls>>
    /\ UNCHANGED <<engVars, runVars>>

\* Lines 284-285 (att_synthesize): the cepstral file (its content is not modelled).
SynWriteCc ==
    /\ syn_pc = "write_cc"
    /\ driver = "att_synthesize"
    /\ files' = Append(files, [ext |-> "cc", data |-> <<>>])
    /\ syn_pc' = "write_lf0"
    /\ UNCHANGED <<driver, force_dur, lab_codes, durstats, tstamp_durs, ndurs, dur, t,
                   reldur_c, aco_inputs, aco_seqlen, acot, fv, lf0, uv, syn_err,
                   frame_unit, dur_model_calls, vocoder_calls>>
    /\ UNCHANGED <<engVars, runVars>>

\* Lines 286-287 (att_synthesize).
SynWriteLf0 ==
    /\ syn_pc = "write_lf0"
    /\ files' = Append(files, [ext |-> "lf0", data |-> lf0])
    /\ syn_pc' = "write_fv"
    /\ UNCHANGED <<driver, force_dur, lab_codes, durstats, tstamp_durs, ndurs, dur, t,
                   reldur_c, aco_inputs, aco_seqlen, acot, fv, lf0, uv, syn_err,
                   frame_unit, dur_model_calls, vocoder_calls>>
    /\ UNCHANGED <<engVars, runVars>>

\* Lines 288-289 (att_synthesize).
SynWriteFv ==
    /\ syn_pc = "write_fv"
    /\ files' = Append(files, [ext |-> "fv", data |-> fv])
    /\ syn_pc' = "vocode"
    /\ UNCHANGED <<driver, force_dur, lab_codes, durstats, tstamp_durs, ndurs, dur, t,
                   reldur_c, aco_inputs, aco_seqlen, acot, fv, lf0, uv, syn_err,
                   frame_unit, dur_model_calls, vocoder_calls>>
    /\ UNCHANGED <<engVars, runVars>>

\* Lines 290-294 (att_synthesize): aco2wav, then the completion message.
SynVocode ==
    /\ syn_pc = "vocode"
    /\ vocoder_calls' = vocoder_calls + 1
    /\ syn_pc' = "done"
    /\ UNCHANGED <<driver, force_dur, lab_codes, durstats, tstamp_durs, ndurs, dur, t,
                   reldur_c, aco_inputs, aco_seqlen, acot, fv, lf0, uv, syn_err,
                   frame_unit, dur_model_calls, files>>
    /\ UNCHANGED <<engVars, runVars>>

SynNext ==
    \/ SynForceDurs
    \/ SynPredictDurs
    \/ SynEmitFrame
    \/ SynDivZero
    \/ SynNextUnit
    \/ SynExpandEnd
    \/ SynEmptyBatch
    \/ SynAcoModel
    \/ SynPost
    \/ SynWriteRaises
    \/ SynWriteCc
    \/ SynWriteLf0
    \/ SynWriteFv
    \/ SynVocode

----------------------------------------------------------------------------
(* The epoch runners: train_aco_epoch, train_dur_epoch, train_attaco_epoch, *)
(* eval_aco_epoch, eval_dur_epoch, eval_attaco_epoch.                       *)
(*                                                                          *)
(* The model, the criterion, the optimizer and the data source are opaque:  *)
(* a recurrent state is a token that records where it came from, the loss   *)
(* of batch b is the tag b + 1, and an optimizer step bumps the parameter   *)
(* version.  Reading a one-element tensor (.item(), .data[0]) is the read   *)
(* of its number.                                                           *)

TrainRunners == {"train_aco_epoch", "train_dur_epoch", "train_attaco_epoch"}

EvalRunners == {"eval_aco_epoch", "eval_dur_epoch", "eval_attaco_epoch"}

Runners == TrainRunners \cup EvalRunners

\* The speaker names idx2spk maps to.
Speakers == {"spkA", "spkB"}

\* The keys a caller may put in the option mapping; "lr" is known to no runner.
OptKeys == {"stateful", "spk2acostats", "spk2durstats", "idx2spk", "mulout",
            "sil_id", "q_classes", "decoder", "lr"}

\* The keys whose value is a flag; every other key carries a (non-None) object.
FlagKeys == {"stateful", "mulout"}

MaxOpts == 3

OptMaps ==
    UNION {{o \in [K -> BOOLEAN] : \A k \in K \ FlagKeys : o[k]} :
           K \in {S \in SUBSET OptKeys : Cardinality(S) <= MaxOpts}}

LogFreqChoices == {1, 2}

MaxBatches == 3

\* A batch: the speaker of each of its sequences (spk_b), the speaker the
\* runners read at spk_b[0, 0], the true lengths of its sequences (their number
\* is the batch size, their maximum the padded length), and whether every
\* retained step is a silence.
Batch(spk_b, slen, sil) == [spk |-> spk_b[1], spk_b |-> spk_b, slen |-> slen, sil |-> sil]

BatchChoices ==
    {Batch(<<"spkA", "spkA">>, <<2, 1>>, FALSE),
     Batch(<<"spkB", "spkB">>, <<2, 1>>, FALSE),
     Batch(<<"spkA">>, <<1>>, FALSE),
     Batch(<<"spkB">>, <<1>>, TRUE),
     Batch(<<"spkA", "spkB">>, <<2, 1>>, FALSE)}

\* The keys each runner pops.
Recognized(r) ==
    CASE r = "train_aco_epoch" -> {"spk2acostats", "idx2spk", "mulout"}
      [] r = "train_dur_epoch" -> {"stateful", "spk2durstats", "idx2spk", "mulout"}
      [] r = "eval_aco_epoch" -> {"sil_id", "idx2spk", "mulout"}
      [] r = "eval_dur_epoch" -> {"sil_id", "q_classes", "idx2spk", "mulout"}
      [] r = "train_attaco_epoch" -> {"spk2acostats", "idx2spk", "decoder"}
      [] r = "eval_attaco_epoch" -> {"sil_id", "idx2spk", "decoder"}
      [] OTHER -> {}

\* dict.pop of every key of K that is present.
Pop(o, K) == [k \in (DOMAIN o) \ K |-> o[k]]

\* d[k] = v on a dict.
Put(d, k, v) == [x \in (DOMAIN d) \cup {k} |-> IF x = k THEN v ELSE d[x]]

\* del d[k].
Del(d, k) == [x \in (DOMAIN d) \ {k} |-> d[x]]

\* The call: the runner and the option mapping it is given.
RunInit ==
    /\ runner \in Runners
    /\ tr_opts \in OptMaps
    /\ opts_in = tr_opts
    /\ log_freq = 1 /\ num_batches = 0
    /\ crit_nll = FALSE /\ mo_model = FALSE /\ stats_arg = FALSE
    /\ reset_batch_state = FALSE /\ stateful = FALSE /\ spk2stats = FALSE
    /\ idx2spk = FALSE /\ mulout = FALSE /\ round_N = 1 /\ b_idx = 0
    /\ batch = <<>> /\ spk2hid_states = EmptyMap /\ spk2out_states = EmptyMap
    /\ states = <<>> /\ spk_loss_batch = EmptyMap /\ epoch_losses = EmptyMap
    /\ nosil = <<>> /\ preds = <<>> /\ pe_start_idx = 0
    /\ run_pc = "opts" /\ run_err = "" /\ fwd_log = <<>> /\ init_log = <<>>
    /\ opt_log = <<>> /\ params = 0 /\ log_records = <<>> /\ metric_log = <<>>
    /\ log_writer = FALSE /\ sink_log = <<>> /\ result = <<>> /\ later_epoch = FALSE
    /\ EngIdle
    /\ SynIdle

\* The runner pops 'mulout'.
PopsMulout == runner \in {"train_aco_epoch", "train_dur_epoch", "eval_aco_epoch",
                          "eval_dur_epoch"}

\* 'mulout' is given and idx2spk is not.
MuloutWithoutIdx2spk ==
    /\ PopsMulout
    /\ "mulout" \in DOMAIN tr_opts
    /\ "idx2spk" \notin DOMAIN tr_opts

\* The mutant of Leftover: a key that some runner knows is let through.
Leftover_anyRunner == (DOMAIN tr_opts) \ UNION {Recognized(r) : r \in Runners}

\* The keys left once the runner has popped those it knows.
Leftover == (DOMAIN tr_opts) \ Recognized(runner)

\* Lines 314-320, 491-497: len(list(idx2spk.keys())) is evaluated on None before
\* the None check; lines 645-650, 942-946: the evaluation runners check first.
RunMuloutNoIdx2spk ==
    /\ run_pc = "opts"
    /\ MuloutWithoutIdx2spk
    /\ tr_opts' = Pop(tr_opts, Recognized(runner))
    /\ run_err' = IF runner \in TrainRunners THEN "AttributeError" ELSE "ValueError"
    /\ run_pc' = "raised"
    /\ UNCHANGED <<runner, opts_in, log_freq, num_batches, crit_nll, mo_model, stats_arg,
                   reset_batch_state, stateful, spk2stats, idx2spk, mulout, round_N,
                   b_idx, batch, spk2hid_states, spk2out_states, states,
                   spk_loss_batch, epoch_losses, nosil, preds, pe_start_idx,
                   fwd_log, init_log, opt_log, params, log_records, metric_log>>
    /\ UNCHANGED <<log_writer, sink_log, result, later_epoch>>
    /\ UNCHANGED <<engVars, synVars>>

\* Lines 321, 498, 651, 947, 1047, 1153: assert len(tr_opts) == 0.
RunUnrecognized ==
    /\ run_pc = "opts"
    /\ ~MuloutWithoutIdx2spk
    /\ Leftover # {}
    /\ tr_opts' = Pop(tr_opts, Recognized(runner))
    /\ run_err' = "AssertionError"
    /\ run_pc' = "raised"
    /\ UNCHANGED <<runner, opts_in, log_freq, num_batches, crit_nll, mo_model, stats_arg,
                   reset_batch_state, stateful, spk2stats, idx2spk, mulout, round_N,
                   b_idx, batch, spk2hid_states, spk2out_states, states,
                   spk_loss_batch, epoch_losses, nosil, preds, pe_start_idx,
                   fwd_log, init_log, opt_log, params, log_records, metric_log>>
    /\ UNCHANGED <<log_writer, sink_log, result, later_epoch>>
    /\ UNCHANGED <<engVars, synVars>>

\* Lines 313-317, 490-494: round_N is the number of speakers whenever the
\* 'mulout' key is present, whatever its value.
RoundN ==
    IF runner \in {"train_aco_epoch", "train_dur_epoch"} /\ "mulout" \in DOMAIN tr_opts
    THEN Cardinality(Speakers) ELSE 1

\* Lines 478-481: stateful is True whenever the key is present; its value is
\* popped and dropped.
Stateful == runner = "train_dur_epoch" /\ "stateful" \in DOMAIN tr_opts

\* The statistics the runner will use: the training runners overwrite the
\* argument with None and read the option (lines 305-308, 482-485, 1037-1040);
\* the evaluation runners use the stats argument (lines 652, 992, 1216).
StatsGiven(st) ==
    CASE runner \in {"train_aco_epoch", "train_attaco_epoch"} ->
             "spk2acostats" \in DOMAIN tr_opts
      [] runner = "train_dur_epoch" -> "spk2durstats" \in DOMAIN tr_opts
      [] OTHER -> st

\* Lines 302-333, 476-505, 636-661, 931-956, 1034-1052, 1142-1165: the options
\* are consumed and the locals set; the arguments the loop reads are bound here.
RunPrologue ==
    /\ run_pc = "opts"
    /\ ~MuloutWithoutIdx2spk
    /\ Leftover = {}
    /\ tr_opts' = Pop(tr_opts, Recognized(runner))
    /\ stateful' = Stateful
    /\ idx2spk' = ("idx2spk" \in DOMAIN tr_opts)
    /\ mulout' = (PopsMulout /\ "mulout" \in DOMAIN tr_opts /\ tr_opts["mulout"])
    /\ round_N' = RoundN
    /\ \E lf \in LogFreqChoices, n \in 0..MaxBatches, nll \in BOOLEAN,
          mo \in BOOLEAN, st \in BOOLEAN, rs \in BOOLEAN, lw \in BOOLEAN :
          /\ log_writer' = lw
          /\ later_epoch => /\ lf = log_freq /\ n = num_batches /\ nll = crit_nll
                            /\ mo = mo_model /\ st = stats_arg
                            /\ rs = reset_batch_state /\ lw = log_writer
          /\ runner \in EvalRunners => lf = 1
          /\ runner \notin {"train_aco_epoch", "train_dur_epoch"} => ~nll
          /\ runner \in {"train_attaco_epoch", "eval_attaco_epoch"} => ~mo
          /\ runner \in TrainRunners => ~st
          /\ runner \notin {"eval_aco_epoch", "eval_attaco_epoch"} => ~rs
          /\ log_freq' = lf
          /\ num_batches' = n
          /\ crit_nll' = nll
          /\ mo_model' = mo
          /\ stats_arg' = st
          /\ reset_batch_state' = rs
          /\ spk2stats' = StatsGiven(st)
    /\ run_pc' = "loop"
    /\ UNCHANGED <<runner, opts_in, b_idx, batch, spk2hid_states, spk2out_states,
                   states, spk_loss_batch, epoch_losses, nosil, preds, pe_start_idx,
                   run_err, fwd_log, init_log, opt_log, params, log_records,
                   metric_log>>
    /\ UNCHANGED <<sink_log, result, later_epoch>>
    /\ UNCHANGED <<engVars, synVars>>

\* ---- recurrent states

\* model.init_hidden_state(bsz) / model.init_output_state(bsz) at batch b.
InitState(kind, b, bsz) ==
    [kind |-> kind, src |-> "init", b |-> b, bsz |-> bsz, detached |-> FALSE]

\* The state the model returns from its forward pass on batch b.
ModelState(kind, b, bsz) ==
    [kind |-> kind, src |-> "model", b |-> b, bsz |-> bsz, detached |-> FALSE]

\* utils.repackage_hidden: the state detached from its history and resized to
\* the live batch size.
repackage_hidden(h, curr_bsz) == [h EXCEPT !.bsz = curr_bsz, !.detached = TRUE]

\* Line 528: tuple(st.detach() for st in states).
Detach(h) == [h EXCEPT !.detached = TRUE]

\* The mutant of CurrBsz: the size of a full batch.
CurrBsz_full(bt) == 2

\* Lines 346, 517, 696: curr_bsz = spk_b.size(1).
CurrBsz(bt) == Len(bt.slen)

\* aco_b.size(0): the padded length of the batch.
TimeLen(bt) == IF \E i \in 1..Len(bt.slen) : bt.slen[i] = 2 THEN 2 ELSE 1

\* ---- training

\* Line 379, 581, 1089: the loss of batch b.
Loss(b) == b + 1

\* The no-silence metric (mcd / rmse on mask-multiplied data): zero when the
\* mask leaves nothing.
NosilMetric(bt) == IF bt.sil THEN 0 ELSE 4

\* Lines 383, 547: the training metric is computed unless the criterion is
\* nll_loss; train_attaco_epoch always computes it (lines 1090-1105).
MetricComputed == runner = "train_attaco_epoch" \/ ~crit_nll

\* The accumulator of the training metric.
MetricName == IF runner = "train_dur_epoch" THEN "tr_rmse" ELSE "tr_mcd"

\* Lines 439, 602.
MoName(spk) == "mo-" \o spk \o "_tr_loss"

\* Lines 435, 598: if mulout.
RunMulout == mulout

\* Lines 430-431, 593-594, 1109-1110 (where round_N is not used and stays 1).
LogDue(b) ==
    \/ (b + 1) % (round_N * log_freq) = 0
    \/ (b + 1) >= num_batches

\* Lines 437-442, 600-605: every item of spk_loss_batch is appended.
MoAppend(el, slb) ==
    LET names == {MoName(sp) : sp \in DOMAIN slb}
        val(n) == slb[CHOOSE sp \in DOMAIN slb : MoName(sp) = n]
    IN [n \in (DOMAIN el) \cup names |->
            IF n \notin names THEN el[n]
            ELSE IF n \in DOMAIN el THEN Append(el[n], val(n)) ELSE <<val(n)>>]

\* Lines 450-453, 611-614, 1117-1120: the lists made at the first emission.
SoLists(el, m) ==
    IF "tr_loss" \in DOMAIN el THEN el
    ELSE IF m # <<>> /\ m[1] # 0
         THEN Put(Put(el, "tr_loss", <<>>), MetricName, <<>>)
         ELSE Put(el, "tr_loss", <<>>)

\* Lines 457, 620, 1124: if nosil_aco_mcd / if nosil_dur_rmse.
Truthy(m) == m # <<>> /\ m[1] # 0

\* Lines 454, 615, 1121: epoch_losses['tr_loss'].append(loss).
SoLoss(el, m, b) == [SoLists(el, m) EXCEPT !["tr_loss"] = Append(@, Loss(b))]

\* Lines 458, 621, 1125: epoch_losses[metric].append fails on a missing list.
SoKeyError(el, m) == Truthy(m) /\ MetricName \notin DOMAIN SoLists(el, m)

\* Lines 450-460, 611-623, 1117-1127.
SoAppend(el, m, b) ==
    IF Truthy(m) THEN [SoLoss(el, m, b) EXCEPT ![MetricName] = Append(@, m[1])]
    ELSE SoLoss(el, m, b)

\* The record of one emission: what is logged, by name.
SoRecord(m, b) ==
    IF Truthy(m)
    THEN [n \in {"tr_loss", MetricName} |-> IF n = "tr_loss" THEN Loss(b) ELSE m[1]]
    ELSE [n \in {"tr_loss"} |-> Loss(b)]

MoRecord(slb) ==
    [n \in {MoName(sp) : sp \in DOMAIN slb} |->
        slb[CHOOSE sp \in DOMAIN slb : MoName(sp) = n]]

\* utils.write_scalar_log and write_histogram_log, and log_writer.add_audio
\* under `if log_writer is not None`: what is written at batch b reaches the
\* sink when one is attached, and nothing happens otherwise.
Written(sink, lw, b, names) ==
    IF lw /\ names # {} THEN Append(sink, [b |-> b, names |-> names]) ELSE sink

\* Lines 455-460, 616-623, 1122-1127: the names written before
\* epoch_losses[metric].append.
SoWrittenFirst ==
    IF runner = "train_dur_epoch" THEN {"tr_loss", "train/dur"} ELSE {"tr_loss"}

\* Lines 443, 455-460, 616-623, 1122-1127: the names written at one emission;
\* the multi-output branch of train_dur_epoch writes nothing.
TrainWritten(slb, m) ==
    IF RunMulout
    THEN IF runner = "train_aco_epoch" THEN {MoName(sp) : sp \in DOMAIN slb} ELSE {}
    ELSE SoWrittenFirst \cup
         (IF ~Truthy(m) THEN {}
          ELSE IF runner = "train_dur_epoch" THEN {"tr_nosil_dur_rmse"} ELSE {"tr_mcd"})

\* The mutant of LoggedLosses: the losses are kept only when a sink is attached.
LoggedLosses_sinkOnly(lw, el, slb, m, b, due) ==
    IF ~due \/ ~lw THEN el
    ELSE IF RunMulout THEN MoAppend(el, slb)
    ELSE SoAppend(el, m, b)

\* Lines 430-460, 593-623, 1110-1127: epoch_losses after the log block of batch
\* b, run with sink lw: the appends stand beside the writes, not under them.
LoggedLosses(lw, el, slb, m, b, due) ==
    IF ~due THEN el
    ELSE IF RunMulout THEN MoAppend(el, slb)
    ELSE SoAppend(el, m, b)

\* The mutant of NextOffset: the offset counts batches, not time steps.
NextOffset_perBatch(pe, bt) == pe + 1

\* Lines 1130, 1204: pe_start_idx += aco_b.size(0), the time-axis length of the
\* time-major batch.
NextOffset(pe, bt) == pe + TimeLen(bt)

\* One model(...) call as the log keeps it: the batch (its index, speaker,
\* batch size and true lengths) and the states and position handed over.
FwdCall(b, bt, hid, out) ==
    [b |-> b, spk |-> bt.spk, spk_b |-> bt.spk_b, bsz |-> Len(bt.slen), slen |-> bt.slen,
     hid |-> hid, out |-> out, pe |-> pe_start_idx]

\* The mutant of SpkName: one cache slot for every speaker.
SpkName_single(bt) == "spkA"

\* Lines 342, 692: spk_name = idx2spk[spk_b[0, 0]], the key of both caches.
SpkName(bt) == bt.spk

\* Lines 334-378: the batch is fetched, the speaker's states are initialized or
\* fetched and repackaged, the model runs, and a multi-output model's states
\* are saved.
TrainAcoForward ==
    /\ runner = "train_aco_epoch"
    /\ run_pc = "loop"
    /\ b_idx < num_batches
    /\ idx2spk
    /\ \E bt \in BatchChoices :
        LET spk_name == SpkName(bt)
            curr_bsz == CurrBsz(bt)
            cached == spk_name \in DOMAIN spk2hid_states
            hid_state == IF cached
                         THEN repackage_hidden(spk2hid_states[spk_name], curr_bsz)
                         ELSE InitState("hid", b_idx, curr_bsz)
            out_state == IF cached
                         THEN repackage_hidden(spk2out_states[spk_name], curr_bsz)
                         ELSE InitState("out", b_idx, curr_bsz)
        IN /\ batch' = <<bt>>
           /\ init_log' = IF cached THEN init_log ELSE Append(init_log, b_idx)
           /\ fwd_log' = Append(fwd_log, FwdCall(b_idx, bt, <<hid_state>>, <<out_state>>))
           /\ spk2hid_states' =
                 IF mo_model
                 THEN Put(spk2hid_states, spk_name, ModelState("hid", b_idx, Len(bt.slen)))
                 ELSE spk2hid_states
           /\ spk2out_states' =
                 IF mo_model
                 THEN Put(spk2out_states, spk_name, ModelState("out", b_idx, Len(bt.slen)))
                 ELSE spk2out_states
    /\ run_pc' = "update"
    /\ UNCHANGED <<runner, tr_opts, opts_in, log_freq, num_batches, crit_nll, mo_model,
                   stats_arg, reset_batch_state, stateful, spk2stats, idx2spk,
                   mulout, round_N, b_idx, states, spk_loss_batch, epoch_losses,
                   nosil, preds, pe_start_idx, run_err, opt_log, params,
                   log_records, metric_log>>
    /\ UNCHANGED <<log_writer, sink_log, result, later_epoch>>
    /\ UNCHANGED <<engVars, synVars>>

\* Lines 342, 1061: idx2spk[...] with idx2spk None.
TrainNoIdx2spk ==
    /\ runner \in {"train_aco_epoch", "train_attaco_epoch"}
    /\ run_pc = "loop"
    /\ b_idx < num_batches
    /\ ~idx2spk
    /\ \E bt \in BatchChoices : batch' = <<bt>>
    /\ run_err' = "TypeError"
    /\ run_pc' = "raised"
    /\ UNCHANGED <<runner, tr_opts, opts_in, log_freq, num_batches, crit_nll, mo_model,
                   stats_arg, reset_batch_state, stateful, spk2stats, idx2spk,
                   mulout, round_N, b_idx, spk2hid_states, spk2out_states, states,
                   spk_loss_batch, epoch_losses, nosil, preds, pe_start_idx,
                   fwd_log, init_log, opt_log, params, log_records, metric_log>>
    /\ UNCHANGED <<log_writer, sink_log, result, later_epoch>>
    /\ UNCHANGED <<engVars, synVars>>

\* The mutant of DurState: a fresh state at every batch.
DurState_alwaysInit(b, curr_bsz) == InitState("hid", b, curr_bsz)

\* Lines 518-529: the state handed to the duration model at batch b.
DurState(b, curr_bsz) ==
    IF (stateful /\ b = 0) \/ ~stateful
    THEN InitState("hid", b, curr_bsz)
    ELSE Detach(states[1])

\* Lines 506-537 (and 538-542 for a single-output model or with idx2spk).
TrainDurForward ==
    /\ runner = "train_dur_epoch"
    /\ run_pc = "loop"
    /\ b_idx < num_batches
    /\ mo_model => idx2spk
    /\ \E bt \in BatchChoices :
        LET curr_bsz == CurrBsz(bt)
            st == DurState(b_idx, curr_bsz)
        IN /\ batch' = <<bt>>
           /\ init_log' = IF st.src = "init" /\ st.b = b_idx
                          THEN Append(init_log, b_idx) ELSE init_log
           /\ fwd_log' = Append(fwd_log, FwdCall(b_idx, bt, <<st>>, <<>>))
           /\ states' = <<ModelState("hid", b_idx, Len(bt.slen))>>
    /\ run_pc' = "update"
    /\ UNCHANGED <<runner, tr_opts, opts_in, log_freq, num_batches, crit_nll, mo_model,
                   stats_arg, reset_batch_state, stateful, spk2stats, idx2spk,
                   mulout, round_N, b_idx, spk2hid_states, spk2out_states,
                   spk_loss_batch, epoch_losses, nosil, preds, pe_start_idx,
                   run_err, opt_log, params, log_records, metric_log>>
    /\ UNCHANGED <<log_writer, sink_log, result, later_epoch>>
    /\ UNCHANGED <<engVars, synVars>>

\* Line 537: the carried state has the batch size of the batch before; a model
\* handed a state of another size than its input may reject it.
TrainDurModelRaises ==
    /\ runner = "train_dur_epoch"
    /\ run_pc = "loop"
    /\ b_idx < num_batches
    /\ \E bt \in BatchChoices :
        LET st == DurState(b_idx, CurrBsz(bt))
        IN /\ st.bsz # Len(bt.slen)
           /\ batch' = <<bt>>
           /\ fwd_log' = Append(fwd_log, FwdCall(b_idx, bt, <<st>>, <<>>))
           /\ states' = <<st>>
    /\ run_err' = "RuntimeError"
    /\ run_pc' = "raised"
    /\ UNCHANGED <<runner, tr_opts, opts_in, log_freq, num_batches, crit_nll,
                   mo_model, stats_arg, reset_batch_state, stateful, spk2stats,
                   idx2spk, mulout, round_N, b_idx, spk2hid_states, spk2out_states,
                   spk_loss_batch, epoch_losses, nosil, preds, pe_start_idx,
                   init_log, opt_log, params, log_records, metric_log>>
    /\ UNCHANGED <<log_writer, sink_log, result, later_epoch>>
    /\ UNCHANGED <<engVars, synVars>>

\* Lines 537-540: the model has run; idx2spk[...] with idx2spk None.
TrainDurNoIdx2spk ==
    /\ runner = "train_dur_epoch"
    /\ run_pc = "loop"
    /\ b_idx < num_batches
    /\ mo_model /\ ~idx2spk
    /\ \E bt \in BatchChoices :
        LET curr_bsz == CurrBsz(bt)
            st == DurState(b_idx, curr_bsz)
        IN /\ batch' = <<bt>>
           /\ init_log' = IF st.src = "init" /\ st.b = b_idx
                          THEN Append(init_log, b_idx) ELSE init_log
           /\ fwd_log' = Append(fwd_log, FwdCall(b_idx, bt, <<st>>, <<>>))
           /\ states' = <<ModelState("hid", b_idx, Len(bt.slen))>>
    /\ run_err' = "TypeError"
    /\ run_pc' = "raised"
    /\ UNCHANGED <<runner, tr_opts, opts_in, log_freq, num_batches, crit_nll, mo_model,
                   stats_arg, reset_batch_state, stateful, spk2stats, idx2spk,
                   mulout, round_N, b_idx, spk2hid_states, spk2out_states,
                   spk_loss_batch, epoch_losses, nosil, preds, pe_start_idx,
                   opt_log, params, log_records, metric_log>>
    /\ UNCHANGED <<log_writer, sink_log, result, later_epoch>>
    /\ UNCHANGED <<engVars, synVars>>

\* Lines 1053-1089: the batch is fetched and the model runs at pe_start_idx.
TrainAttacoForward ==
    /\ runner = "train_attaco_epoch"
    /\ run_pc = "loop"
    /\ b_idx < num_batches
    /\ idx2spk
    /\ \E bt \in BatchChoices :
        /\ batch' = <<bt>>
        /\ fwd_log' = Append(fwd_log, FwdCall(b_idx, bt, <<>>, <<>>))
    /\ run_pc' = "update"
    /\ UNCHANGED <<runner, tr_opts, opts_in, log_freq, num_batches, crit_nll, mo_model,
                   stats_arg, reset_batch_state, stateful, spk2stats, idx2spk,
                   mulout, round_N, b_idx, spk2hid_states, spk2out_states, states,
                   spk_loss_batch, epoch_losses, nosil, preds, pe_start_idx,
                   run_err, init_log, opt_log, params, log_records, metric_log>>
    /\ UNCHANGED <<log_writer, sink_log, result, later_epoch>>
    /\ UNCHANGED <<engVars, synVars>>

\* The mutant of StatsAsserted: the statistics are not looked at.
StatsAsserted_skipped == TRUE

\* Lines 401, 565, 752, 992, 1102, 1216: assert spk2acostats is not None /
\* assert spk2durstats is not None, the statement before the de-normalization.
StatsAsserted == spk2stats

\* Line 381: train_aco_epoch keeps the speaker's loss before the metric block.
KeptEarly(slb) ==
    IF runner = "train_aco_epoch" /\ mulout
    THEN Put(slb, batch[1].spk, Loss(b_idx)) ELSE slb

\* Lines 401, 565, 1102: assert spk2acostats / spk2durstats is not None.
TrainStatsMissing ==
    /\ runner \in TrainRunners
    /\ run_pc = "update"
    /\ MetricComputed
    /\ ~StatsAsserted
    /\ spk_loss_batch' = KeptEarly(spk_loss_batch)
    /\ run_err' = "AssertionError"
    /\ run_pc' = "raised"
    /\ UNCHANGED <<runner, tr_opts, opts_in, log_freq, num_batches, crit_nll, mo_model,
                   stats_arg, reset_batch_state, stateful, spk2stats, idx2spk,
                   mulout, round_N, b_idx, batch, spk2hid_states, spk2out_states,
                   states, epoch_losses, nosil, preds, pe_start_idx, fwd_log,
                   init_log, opt_log, params, log_records, metric_log>>
    /\ UNCHANGED <<log_writer, sink_log, result, later_epoch>>
    /\ UNCHANGED <<engVars, synVars>>

\* Lines 410-413: train_aco_epoch with nll_loss.
TrainAcoNll ==
    /\ runner = "train_aco_epoch"
    /\ run_pc = "update"
    /\ crit_nll
    /\ spk_loss_batch' = KeptEarly(spk_loss_batch)
    /\ nosil' = <<>>
    /\ run_err' = "NotImplementedError"
    /\ run_pc' = "raised"
    /\ UNCHANGED <<runner, tr_opts, opts_in, log_freq, num_batches, crit_nll, mo_model,
                   stats_arg, reset_batch_state, stateful, spk2stats, idx2spk,
                   mulout, round_N, b_idx, batch, spk2hid_states, spk2out_states,
                   states, epoch_losses, preds, pe_start_idx, fwd_log, init_log,
                   opt_log, params, log_records, metric_log>>
    /\ UNCHANGED <<log_writer, sink_log, result, later_epoch>>
    /\ UNCHANGED <<engVars, synVars>>

\* The metric of the batch being processed, None when it is not computed.
BatchNosil == IF MetricComputed THEN <<NosilMetric(batch[1])>> ELSE <<>>

\* The gradient and optimizer calls of batch b (lines 426-428, 589-591, 1106-1108).
OptCalls(b) ==
    <<[b |-> b, op |-> "zero_grad"], [b |-> b, op |-> "backward"],
      [b |-> b, op |-> "step"]>>

\* The mutant of TrainStepGuard: nll_loss is let through to the optimizer.
TrainStepGuard_nll ==
    /\ runner \in TrainRunners
    /\ run_pc = "update"
    /\ MetricComputed => StatsAsserted

\* The training step can run: no exception before the optimizer.
TrainStepGuard ==
    /\ runner \in TrainRunners
    /\ run_pc = "update"
    /\ MetricComputed => StatsAsserted
    /\ ~(runner = "train_aco_epoch" /\ crit_nll)

\* The mutant of KeptLosses: a speaker's first loss is kept, later ones dropped.
KeptLosses_first(slb, b) ==
    IF mulout /\ batch[1].spk \notin DOMAIN slb
    THEN Put(slb, batch[1].spk, Loss(b)) ELSE slb

\* Lines 380-381, 419-423, 582-586: spk_loss_batch[speaker] = loss; nothing
\* ever removes an entry.
KeptLosses(slb, b) == IF mulout THEN Put(slb, batch[1].spk, Loss(b)) ELSE slb

\* Lines 379-462, 543-625, 1088-1130: the loss and the metric, the optimizer
\* step, the log emission when it is due, the next batch index.
TrainUpdate ==
    /\ TrainStepGuard
    /\ LET m == BatchNosil
           slb == KeptLosses(spk_loss_batch, b_idx)
           due == LogDue(b_idx)
       IN /\ ~(due /\ ~RunMulout /\ SoKeyError(epoch_losses, m))
          /\ nosil' = m
          /\ spk_loss_batch' = slb
          /\ epoch_losses' = LoggedLosses(log_writer, epoch_losses, slb, m, b_idx, due)
          /\ sink_log' = IF due THEN Written(sink_log, log_writer, b_idx, TrainWritten(slb, m))
                         ELSE sink_log
          /\ log_records' =
                IF ~due THEN log_records
                ELSE Append(log_records,
                            [b |-> b_idx, mo |-> RunMulout,
                             losses |-> IF RunMulout THEN MoRecord(slb)
                                        ELSE SoRecord(m, b_idx)])
    /\ opt_log' = opt_log \o OptCalls(b_idx)
    /\ params' = params + 1
    /\ pe_start_idx' = IF runner = "train_attaco_epoch"
                       THEN NextOffset(pe_start_idx, batch[1]) ELSE pe_start_idx
    /\ b_idx' = b_idx + 1
    /\ run_pc' = "loop"
    /\ UNCHANGED <<runner, tr_opts, opts_in, log_freq, num_batches, crit_nll, mo_model,
                   stats_arg, reset_batch_state, stateful, spk2stats, idx2spk,
                   mulout, round_N, batch, spk2hid_states, spk2out_states, states,
                   preds, run_err, fwd_log, init_log, metric_log>>
    /\ UNCHANGED <<log_writer, result, later_epoch>>
    /\ UNCHANGED <<engVars, synVars>>

\* Lines 452-458, 613-621, 1119-1125: the first emission saw a zero metric and
\* made no metric list; a later emission with a nonzero metric appends to it.
TrainLogKeyError ==
    /\ TrainStepGuard
    /\ LogDue(b_idx)
    /\ ~RunMulout
    /\ SoKeyError(epoch_losses, BatchNosil)
    /\ nosil' = BatchNosil
    /\ spk_loss_batch' = KeptLosses(spk_loss_batch, b_idx)
    /\ epoch_losses' = SoLoss(epoch_losses, BatchNosil, b_idx)
    /\ opt_log' = opt_log \o OptCalls(b_idx)
    /\ params' = params + 1
    /\ run_err' = "KeyError"
    /\ run_pc' = "raised"
    /\ UNCHANGED <<runner, tr_opts, opts_in, log_freq, num_batches, crit_nll, mo_model,
                   stats_arg, reset_batch_state, stateful, spk2stats, idx2spk,
                   mulout, round_N, b_idx, batch, spk2hid_states, spk2out_states,
                   states, preds, pe_start_idx, fwd_log, init_log, log_records,
                   metric_log>>
    /\ sink_log' = Written(sink_log, log_writer, b_idx, SoWrittenFirst)
    /\ UNCHANGED <<log_writer, result, later_epoch>>
    /\ UNCHANGED <<engVars, synVars>>

\* Lines 463-469, 626-631, 1131-1137: the loop is over, epoch_losses is returned.
TrainEnd ==
    /\ runner \in TrainRunners
    /\ run_pc = "loop"
    /\ b_idx >= num_batches
    /\ run_pc' = "done"
    /\ UNCHANGED <<runner, tr_opts, opts_in, log_freq, num_batches, crit_nll, mo_model,
                   stats_arg, reset_batch_state, stateful, spk2stats, idx2spk,
                   mulout, round_N, b_idx, batch, spk2hid_states, spk2out_states,
                   states, spk_loss_batch, epoch_losses, nosil, preds,
                   pe_start_idx, run_err, fwd_log, init_log, opt_log, params,
                   log_records, metric_log>>
    /\ UNCHANGED <<log_writer, sink_log, result, later_epoch>>
    /\ UNCHANGED <<engVars, synVars>>

\* ---- evaluation

\* The retained steps of sequences i..Len(slen) of batch b, sequence by
\* sequence, each cut at its true length.
RECURSIVE Retained(_, _, _)
Retained(b, slen, i) ==
    IF i > Len(slen) THEN <<>>
    ELSE [j \in 1..slen[i] |-> [b |-> b, seq |-> i, step |-> j]] \o Retained(b, slen, i + 1)

\* utils.predict_masked_mcd / predict_masked_rmse on the accumulated buffer:
\* every sequence of the batch truncated to its true length, flattened, and
\* concatenated to what was accumulated (None is the empty buffer).
predict_masked(acc, b, bt) == acc \o Retained(b, bt.slen, 1)

\* The mutant of EvalBuffer: the buffer is None again at every batch, as in
\* the training runners (lines 385-396).
EvalBuffer_perBatch == <<>>

\* Lines 740-745, 984-990, 1209-1214: the accumulated buffer is passed in.
EvalBuffer == preds

\* The mutant of EvalNoGrad: the batch ends with a gradient step.
EvalNoGrad_steps ==
    /\ opt_log' = opt_log \o OptCalls(b_idx)
    /\ params' = params + 1

\* Lines 633-637, 928-932, 1139-1143: the evaluation runners take no optimizer
\* and run the loop under model.eval() and torch.no_grad(); their body has no
\* zero_grad, backward or step.
EvalNoGrad == UNCHANGED <<opt_log, params>>

\* Lines 722-724, 1205-1207: all_comp is the pair of the comparison's outcome and
\* the array of speaker ids.
all_comp(bt) == <<\A i \in 1..Len(bt.spk_b) : bt.spk_b[i] = bt.spk_b[1], bt.spk_b>>

\* Lines 725, 1208: assert all_comp passes iff the tuple is true, that is, not
\* empty.
AssertPasses(tup) == Len(tup) # 0

\* The mutant of EvalStored: the initial state is not kept in the cache.
EvalStored_notKept(cache, spk_name, st) == cache

\* Lines 696-702: a speaker that is not in the cache gets the initial state, and
\* the cache keeps it.
EvalStored(cache, spk_name, st) ==
    IF spk_name \in DOMAIN cache THEN cache ELSE Put(cache, spk_name, st)

\* Lines 664-745: one batch of eval_aco_epoch.
EvalAcoBatch ==
    /\ runner = "eval_aco_epoch"
    /\ run_pc = "loop"
    /\ b_idx < num_batches
    /\ idx2spk
    /\ \E bt \in BatchChoices :
        LET spk_name == SpkName(bt)
            curr_bsz == CurrBsz(bt)
            cached == spk_name \in DOMAIN spk2hid_states
            hid_state == IF cached
                         THEN repackage_hidden(spk2hid_states[spk_name], curr_bsz)
                         ELSE InitState("hid", b_idx, curr_bsz)
            out_state == IF cached
                         THEN repackage_hidden(spk2out_states[spk_name], curr_bsz)
                         ELSE InitState("out", b_idx, curr_bsz)
            hid1 == EvalStored(spk2hid_states, spk_name, hid_state)
            out1 == EvalStored(spk2out_states, spk_name, out_state)
            hid2 == IF mo_model
                    THEN Put(hid1, spk_name, ModelState("hid", b_idx, Len(bt.slen)))
                    ELSE hid1
            out2 == IF mo_model
                    THEN Put(out1, spk_name, ModelState("out", b_idx, Len(bt.slen)))
                    ELSE out1
            asserted == AssertPasses(all_comp(bt))
            missing == reset_batch_state /\ spk_name \notin DOMAIN hid2
        IN /\ batch' = <<bt>>
           /\ init_log' = IF cached THEN init_log ELSE Append(init_log, b_idx)
           /\ fwd_log' = Append(fwd_log, FwdCall(b_idx, bt, <<hid_state>>, <<out_state>>))
           /\ IF ~asserted
              THEN /\ run_pc' = "raised"
                   /\ run_err' = "AssertionError"
                   /\ spk2hid_states' = hid1
                   /\ spk2out_states' = out1
                   /\ UNCHANGED <<preds, b_idx>>
              ELSE IF missing
              THEN /\ run_pc' = "raised"
                   /\ run_err' = "KeyError"
                   /\ spk2hid_states' = hid2
                   /\ spk2out_states' = out2
                   /\ UNCHANGED <<preds, b_idx>>
              ELSE /\ spk2hid_states' = IF reset_batch_state THEN Del(hid2, spk_name) ELSE hid2
                   /\ spk2out_states' = IF reset_batch_state THEN Del(out2, spk_name) ELSE out2
                   /\ preds' = predict_masked(EvalBuffer, b_idx, bt)
                   /\ b_idx' = b_idx + 1
                   /\ UNCHANGED <<run_pc, run_err>>
    /\ UNCHANGED <<runner, tr_opts, opts_in, log_freq, num_batches, crit_nll, mo_model,
                   stats_arg, reset_batch_state, stateful, spk2stats, idx2spk,
                   mulout, round_N, states, spk_loss_batch, epoch_losses, nosil,
                   pe_start_idx, log_records, metric_log>>
    /\ EvalNoGrad
    /\ UNCHANGED <<log_writer, sink_log, result, later_epoch>>
    /\ UNCHANGED <<engVars, synVars>>

\* Lines 692, 1178: idx2spk[...] with idx2spk None.
EvalNoIdx2spk ==
    /\ runner \in {"eval_aco_epoch", "eval_attaco_epoch"}
    /\ run_pc = "loop"
    /\ b_idx < num_batches
    /\ ~idx2spk
    /\ \E bt \in BatchChoices : batch' = <<bt>>
    /\ run_err' = "TypeError"
    /\ run_pc' = "raised"
    /\ UNCHANGED <<runner, tr_opts, opts_in, log_freq, num_batches, crit_nll, mo_model,
                   stats_arg, reset_batch_state, stateful, spk2stats, idx2spk,
                   mulout, round_N, b_idx, spk2hid_states, spk2out_states, states,
                   spk_loss_batch, epoch_losses, nosil, preds, pe_start_idx,
                   fwd_log, init_log, opt_log, params, log_records, metric_log>>
    /\ UNCHANGED <<log_writer, sink_log, result, later_epoch>>
    /\ UNCHANGED <<engVars, synVars>>

\* Lines 956-990: one batch of eval_dur_epoch; the state is initialized at
\* every batch.
EvalDurBatch ==
    /\ runner = "eval_dur_epoch"
    /\ run_pc = "loop"
    /\ b_idx < num_batches
    /\ mo_model => idx2spk
    /\ \E bt \in BatchChoices :
        /\ batch' = <<bt>>
        /\ fwd_log' = Append(fwd_log, FwdCall(b_idx, bt,
                                <<InitState("hid", b_idx, CurrBsz(bt))>>, <<>>))
        /\ states' = <<ModelState("hid", b_idx, Len(bt.slen))>>
        /\ preds' = predict_masked(EvalBuffer, b_idx, bt)
    /\ init_log' = Append(init_log, b_idx)
    /\ b_idx' = b_idx + 1
    /\ UNCHANGED <<runner, tr_opts, opts_in, log_freq, num_batches, crit_nll, mo_model,
                   stats_arg, reset_batch_state, stateful, spk2stats, idx2spk,
                   mulout, round_N, spk2hid_states, spk2out_states,
                   spk_loss_batch, epoch_losses, nosil, pe_start_idx, run_pc,
                   run_err, log_records, metric_log>>
    /\ EvalNoGrad
    /\ UNCHANGED <<log_writer, sink_log, result, later_epoch>>
    /\ UNCHANGED <<engVars, synVars>>

\* Lines 977-980: the model has run; idx2spk[...] with idx2spk None.
EvalDurNoIdx2spk ==
    /\ runner = "eval_dur_epoch"
    /\ run_pc = "loop"
    /\ b_idx < num_batches
    /\ mo_model /\ ~idx2spk
    /\ \E bt \in BatchChoices :
        /\ batch' = <<bt>>
        /\ fwd_log' = Append(fwd_log, FwdCall(b_idx, bt,
                                <<InitState("hid", b_idx, CurrBsz(bt))>>, <<>>))
        /\ states' = <<ModelState("hid", b_idx, Len(bt.slen))>>
    /\ init_log' = Append(init_log, b_idx)
    /\ run_err' = "TypeError"
    /\ run_pc' = "raised"
    /\ UNCHANGED <<runner, tr_opts, opts_in, log_freq, num_batches, crit_nll, mo_model,
                   stats_arg, reset_batch_state, stateful, spk2stats, idx2spk,
                   mulout, round_N, b_idx, spk2hid_states, spk2out_states,
                   spk_loss_batch, epoch_losses, nosil, preds, pe_start_idx,
                   opt_log, params, log_records, metric_log>>
    /\ UNCHANGED <<log_writer, sink_log, result, later_epoch>>
    /\ UNCHANGED <<engVars, synVars>>

\* Lines 1164-1214: one batch of eval_attaco_epoch.
EvalAttacoBatch ==
    /\ runner = "eval_attaco_epoch"
    /\ run_pc = "loop"
    /\ b_idx < num_batches
    /\ idx2spk
    /\ \E bt \in BatchChoices :
        /\ batch' = <<bt>>
        /\ fwd_log' = Append(fwd_log, FwdCall(b_idx, bt, <<>>, <<>>))
        /\ pe_start_idx' = IF ~reset_batch_state
                           THEN NextOffset(pe_start_idx, bt) ELSE pe_start_idx
        /\ IF ~AssertPasses(all_comp(bt))
           THEN /\ run_pc' = "raised"
                /\ run_err' = "AssertionError"
                /\ UNCHANGED <<preds, b_idx>>
           ELSE /\ preds' = predict_masked(EvalBuffer, b_idx, bt)
                /\ b_idx' = b_idx + 1
                /\ UNCHANGED <<run_pc, run_err>>
    /\ UNCHANGED <<runner, tr_opts, opts_in, log_freq, num_batches, crit_nll, mo_model,
                   stats_arg, reset_batch_state, stateful, spk2stats, idx2spk,
                   mulout, round_N, spk2hid_states, spk2out_states, states,
                   spk_loss_batch, epoch_losses, nosil,
                   init_log, log_records, metric_log>>
    /\ EvalNoGrad
    /\ UNCHANGED <<log_writer, sink_log, result, later_epoch>>
    /\ UNCHANGED <<engVars, synVars>>

\* The loop of an evaluation runner is over.
EvalLoopOver ==
    /\ runner \in EvalRunners
    /\ run_pc = "loop"
    /\ b_idx >= num_batches

\* Lines 746-750: eval_aco_epoch reads preds.shape, None when there was no
\* batch; lines 993, 1217: the other two hand the None buffers to the
\* denormalization once the stats assertion has passed.
EvalEmpty ==
    /\ EvalLoopOver
    /\ num_batches = 0
    /\ runner = "eval_aco_epoch" \/ StatsAsserted
    /\ run_err' = IF runner = "eval_aco_epoch" THEN "AttributeError" ELSE "TypeError"
    /\ run_pc' = "raised"
    /\ UNCHANGED <<runner, tr_opts, opts_in, log_freq, num_batches, crit_nll, mo_model,
                   stats_arg, reset_batch_state, stateful, spk2stats, idx2spk,
                   mulout, round_N, b_idx, batch, spk2hid_states, spk2out_states,
                   states, spk_loss_batch, epoch_losses, nosil, preds,
                   pe_start_idx, fwd_log, init_log, opt_log, params, log_records,
                   metric_log>>
    /\ UNCHANGED <<log_writer, sink_log, result, later_epoch>>
    /\ UNCHANGED <<engVars, synVars>>

\* Lines 752, 992, 1216: assert spk2acostats / spk2durstats is not None.
EvalStatsMissing ==
    /\ EvalLoopOver
    /\ ~(runner = "eval_aco_epoch" /\ num_batches = 0)
    /\ ~StatsAsserted
    /\ run_err' = "AssertionError"
    /\ run_pc' = "raised"
    /\ UNCHANGED <<runner, tr_opts, opts_in, log_freq, num_batches, crit_nll, mo_model,
                   stats_arg, reset_batch_state, stateful, spk2stats, idx2spk,
                   mulout, round_N, b_idx, batch, spk2hid_states, spk2out_states,
                   states, spk_loss_batch, epoch_losses, nosil, preds,
                   pe_start_idx, fwd_log, init_log, opt_log, params, log_records,
                   metric_log>>
    /\ UNCHANGED <<log_writer, sink_log, result, later_epoch>>
    /\ UNCHANGED <<engVars, synVars>>

\* The speakers whose steps are in the buffers.
EvalSpeakers ==
    UNION {{fwd_log[k].spk_b[i] : i \in 1..Len(fwd_log[k].spk_b)} : k \in 1..Len(fwd_log)}

\* The keys of the mapping utils.mcd returns: one per speaker, and 'total'.
McdKeys == EvalSpeakers \cup {"total"}

\* The keys of the mapping utils.afpr returns: A., P., R., F. for the total and
\* for each speaker, and 'total'.
AfprKeys ==
    {m \o "." \o k : m \in {"A", "P", "R", "F"}, k \in EvalSpeakers \cup {"total"}}
        \cup {"total"}

\* Lines 920-925, 1354-1359.
AcoTotalKeys ==
    {"total_aco_mcd", "total_nosil_aco_mcd", "total_aco_afpr", "total_nosil_aco_afpr",
     "total_aco_f0rmse", "total_nosil_aco_f0rmse"}

\* Lines 897-926: the keys of new_keys_d with per-speaker prefix pre.
AcoResultKeys(pre) ==
    {pre \o k \o "_va_mcd" : k \in McdKeys \ {"total"}}
        \cup {pre \o k \o "_va_afpr" : k \in AfprKeys \ {"total"}}
        \cup {pre \o k \o "_va_f0rmse" : k \in EvalSpeakers}
        \cup AcoTotalKeys

\* Lines 1008-1021: the per-speaker keys are the names idx2spk gives, the two
\* aggregates are added by update.
DurResultKeys == EvalSpeakers \cup {"eval_total_dur_rmse", "eval_total_nosil_dur_rmse"}

\* Lines 902-919: mo- or so- by the mulout option; lines 1347-1353: always so-.
ResultKeys ==
    CASE runner = "eval_aco_epoch" -> AcoResultKeys(IF mulout THEN "mo-" ELSE "so-")
      [] runner = "eval_attaco_epoch" -> AcoResultKeys("so-")
      [] OTHER -> DurResultKeys

\* Lines 773-862, 878, 996-1027, 1228-1315, 1331: the names written after the
\* loop; the audio of lines 864-886 and 1317-1334 is rendered and written only
\* under `if log_writer is not None`.
EvalWritten ==
    IF runner = "eval_dur_epoch"
    THEN {"eval_preds_rmse", "eval_gtruths_rmse", "eval_total_dur_rmse",
          "eval_total_nosil_dur_rmse"}
             \cup {"eval_nosil_" \o k \o "_rmse" : k \in EvalSpeakers}
    ELSE {"F0 predictions", "F0 groundtruth", "MFCC predictions", "MFCC groundtruth",
          "U/V predictions", "U/V groundtruth", "FV predictions", "FV groundtruth",
          "total_no-silence_F0_rmse_Hz", "total_MCD_dB", "Total Accuracy",
          "Total Precision", "Total Recall", "total F1", "eval_synth_audio"}
             \cup {k \o "_no-silence_F0_rmse_Hz" : k \in EvalSpeakers}
             \cup {"MCD_spk" \o k \o "_dB" : k \in EvalSpeakers}

\* Lines 897-926, 1008-1028, 1341-1360: the mapping returned by a call with sink
\* lw; the block under `if log_writer is not None` assigns none of its keys.
Returned(lw) == <<ResultKeys>>

\* Lines 753-926, 993-1028, 1217-end: the buffers are denormalized and every
\* metric is computed over them; eval_dur_epoch then names its per-speaker
\* results through idx2spk (line 1011).
EvalMetrics ==
    /\ EvalLoopOver
    /\ num_batches > 0
    /\ StatsAsserted
    /\ metric_log' = Append(metric_log, [b |-> b_idx, len |-> Len(preds), over |-> preds])
    /\ IF runner = "eval_dur_epoch" /\ ~idx2spk
       THEN /\ run_err' = "TypeError" /\ run_pc' = "raised" /\ result' = result
            /\ sink_log' = Written(sink_log, log_writer, b_idx,
                                   {"eval_preds_rmse", "eval_gtruths_rmse"})
       ELSE /\ run_err' = run_err /\ run_pc' = "done" /\ result' = Returned(log_writer)
            /\ sink_log' = Written(sink_log, log_writer, b_idx, EvalWritten)
    /\ UNCHANGED <<runner, tr_opts, opts_in, log_freq, num_batches, crit_nll, mo_model,
                   stats_arg, reset_batch_state, stateful, spk2stats, idx2spk,
                   mulout, round_N, b_idx, batch, spk2hid_states, spk2out_states,
                   states, spk_loss_batch, epoch_losses, nosil, preds,
                   pe_start_idx, fwd_log, init_log, opt_log, params, log_records>>
    /\ UNCHANGED <<log_writer, later_epoch>>
    /\ UNCHANGED <<engVars, synVars>>

\* The mutant of FreshCache: the cache of the earlier call is taken over.
FreshCache_kept(cache) == cache

\* Lines 327-328, 661-662: spk2hid_states = {} and spk2out_states = {} are
\* locals, created by every call.
FreshCache(cache) == EmptyMap

\* The mutant of Copy: the caller's mapping itself is handed over, as the
\* earlier call left it.
Copy_shared(o) == tr_opts

\* Lines 33, 47: tr_opts.copy() / va_opts.copy(), a new mapping with the keys
\* and values of the caller's.
Copy(o) == o

\* Lines 29-33, 45-47 of train_engine: the runner that returned is called again
\* for the next epoch with the same arguments and a copy of the caller's
\* options; its locals are created anew (lines 322-333, 499-505, 653-662,
\* 948-956, 1048-1052, 1154-1165). The parameters of the model are what the
\* earlier epoch left.
RunAgain ==
    /\ run_pc = "done"
    /\ ~later_epoch
    /\ later_epoch' = TRUE
    /\ tr_opts' = Copy(opts_in)
    /\ run_pc' = "opts"
    /\ b_idx' = 0
    /\ batch' = <<>>
    /\ spk2hid_states' = FreshCache(spk2hid_states)
    /\ spk2out_states' = FreshCache(spk2out_states)
    /\ states' = <<>>
    /\ spk_loss_batch' = EmptyMap
    /\ epoch_losses' = EmptyMap
    /\ nosil' = <<>>
    /\ preds' = <<>>
    /\ pe_start_idx' = 0
    /\ fwd_log' = <<>>
    /\ init_log' = <<>>
    /\ opt_log' = <<>>
    /\ log_records' = <<>>
    /\ metric_log' = <<>>
    /\ sink_log' = <<>>
    /\ result' = <<>>
    /\ UNCHANGED <<runner, opts_in, log_freq, num_batches, crit_nll, mo_model,
                   stats_arg, reset_batch_state, stateful, spk2stats, idx2spk,
                   mulout, round_N, run_err, params, log_writer>>
    /\ UNCHANGED <<engVars, synVars>>

RunNext ==
    \/ RunMuloutNoIdx2spk
    \/ RunUnrecognized
    \/ RunPrologue
    \/ TrainAcoForward
    \/ TrainNoIdx2spk
    \/ TrainDurForward
    \/ TrainDurNoIdx2spk
    \/ TrainDurModelRaises
    \/ TrainAttacoForward
    \/ TrainStatsMissing
    \/ TrainAcoNll
    \/ TrainUpdate
    \/ TrainLogKeyError
    \/ TrainEnd
    \/ EvalAcoBatch
    \/ EvalNoIdx2spk
    \/ EvalDurBatch
    \/ EvalDurNoIdx2spk
    \/ EvalAttacoBatch
    \/ EvalEmpty
    \/ EvalStatsMissing
    \/ EvalMetrics
    \/ RunAgain

----------------------------------------------------------------------------
(* Specifications *)

\* One call of train_engine.
SpecEngine == EngInit /\ [][EngNext]_vars

\* One call of synthesize or att_synthesize.
SpecSynth == SynInit /\ [][SynNext]_vars

\* One call of an epoch runner.
SpecRun == RunInit /\ [][RunNext]_vars

----------------------------------------------------------------------------
(* train_engine: properties *)

\* Entry i of a monitored history is non-improving: some earlier value is
\* lower or equal (the first entry always improves on np.inf).
NonImproving(h, i) == \E j \in 1..(i - 1) : h[j] <= h[i]

\* Number of consecutive non-improving entries that end at entry k (k >= 1).
Trailing(h, k) ==
    LET lastImp == CHOOSE i \in 1..k :
                       /\ ~NonImproving(h, i)
                       /\ \A j \in (i + 1)..k : NonImproving(h, j)
    IN  k - lastImp

\* The first position of the minimum of a non-empty history.
FirstArgMin(h) ==
    CHOOSE i \in 1..Len(h) :
        /\ \A j \in 1..Len(h) : h[i] <= h[j]
        /\ \A j \in 1..(i - 1) : h[j] > h[i]

\* The most recently saved checkpoint that carries the best flag.
LastBest ==
    LET idx == {i \in 1..Len(ckpts) : ckpts[i].best_val}
    IN  ckpts[CHOOSE i \in idx : \A j \in idx : j <= i]

\* Early stopping is in force: evaluation runs, a metric is monitored and a
\* patience p >= 1 is given.
EarlyStopping ==
    /\ eval_fn /\ val_dloader /\ eval_target
    /\ eval_patience # <<>>
    /\ eval_patience[1] >= 1

\* C1: with a monitored metric and patience p >= 1 the counter always is p
\* minus the number of consecutive non-improving epochs just seen (reset on
\* a strict improvement, decremented otherwise); the engine is stopped
\* exactly when that number is p, which no earlier epoch reached; at the stop
\* the epoch's training pass and evaluation pass are both complete; never
\* more than `epochs` training passes run; and for [1.0, 0.9, 0.95, 0.96, ...]
\* with p = 2 the run is stopped with exactly 4 epochs run.
C1_EarlyStopping ==
    EarlyStopping =>
        LET p == eval_patience[1]
            n == Len(va_loss)
        IN  /\ n_train <= epochs
            /\ n = 0 => patience = <<p>> /\ eng_pc # "stopped"
            /\ n >= 1 =>
                  /\ patience = <<p - Trailing(va_loss, n)>>
                  /\ (eng_pc = "stopped") <=> (Trailing(va_loss, n) = p)
                  /\ \A k \in 1..(n - 1) : Trailing(va_loss, k) < p
            /\ eng_pc = "stopped" =>
                  /\ n_train = epoch + 1 /\ Len(tr_loss) = epoch + 1
                  /\ n_eval = epoch + 1 /\ n = epoch + 1
            /\ (p = 2 /\ n >= 4 /\ SubSeq(va_loss, 1, 4) = <<100, 90, 95, 96>>) =>
                  /\ eng_pc = "stopped"
                  /\ n_train = 4 /\ n_eval = 4 /\ n = 4

\* C1 witness: the example run, stopped after its 4th epoch with a 5th allowed.
C1_Witness ==
    /\ EarlyStopping /\ eval_patience = <<2>> /\ epochs = 5
    /\ va_loss = <<100, 90, 95, 96>>
    /\ eng_pc = "stopped" /\ n_train = 4

\* C2: a saved checkpoint carries the best flag exactly when its epoch's
\* monitored value is strictly lower than the value of every earlier epoch;
\* between epochs and at the end of the run the most recent best-flagged
\* checkpoint is that of the first epoch that reached the minimum seen so
\* far; for [1.0, 0.9, 0.95, 0.96] with patience 2 it is the epoch of 0.9.
C2_BestCheckpoint ==
    /\ \A i \in 1..Len(ckpts) :
          LET e == ckpts[i].epoch
          IN  ckpts[i].best_val <=>
                  /\ e + 1 <= Len(va_loss)
                  /\ \A j \in 1..e : va_loss[e + 1] < va_loss[j]
    /\ (eng_pc \in {"train", "done", "stopped"} /\ Len(va_loss) >= 1) =>
          /\ \E i \in 1..Len(ckpts) : ckpts[i].best_val
          /\ LastBest.epoch + 1 = FirstArgMin(va_loss)
    /\ (eval_patience = <<2>> /\ va_loss = <<100, 90, 95, 96>>) =>
          /\ LastBest.epoch = 1
          /\ va_loss[LastBest.epoch + 1] = 90

\* C2 witness: an epoch that repeats the best value has been saved unflagged.
C2_Witness ==
    /\ Len(ckpts) = 3 /\ va_loss = <<100, 90, 90>>
    /\ ckpts[2].best_val /\ ~ckpts[3].best_val
    /\ eng_pc = "train"

\* C3 (as claimed): when the run has ended, normally or by early stopping,
\* every epoch that ran has a checkpoint tagged with its index.
C3_CheckpointEveryEpoch ==
    eng_pc \in {"done", "stopped"} =>
        \A e \in 0..(n_train - 1) : \E i \in 1..Len(ckpts) : ckpts[i].epoch = e

\* C4 (as claimed): when the run has ended, normally or by early stopping,
\* the persisted training history has one entry for every epoch whose
\* training pass ran.
C4_HistoryPersisted ==
    eng_pc \in {"done", "stopped"} =>
        /\ Len(saved_tr) = n_train
        /\ saved_tr = tr_loss

\* C5 (as claimed): with an evaluation function and no validation data
\* source the training epoch runner is never invoked.
C5_FailFast ==
    (eval_fn /\ ~val_dloader) => n_train = 0

\* A monitored metric without a patience value, evaluation being possible.
NoPatienceConfig ==
    /\ eval_fn /\ val_dloader /\ eval_target
    /\ eval_patience = <<>>
    /\ epochs >= 1

\* C6: with a monitored metric and no patience the run never gets past the
\* first epoch: it ends raised with ValueError after that epoch's training and
\* evaluation pass, nothing is persisted and no second epoch starts.
C6_NoPatienceRaises ==
    NoPatienceConfig =>
        /\ eng_pc \in {"train", "eval", "monitor", "raised"}
        /\ epoch = 0
        /\ n_train <= 1 /\ n_eval <= 1
        /\ eng_pc = "train" => n_train = 0
        /\ eng_pc = "raised" => eng_err = "ValueError" /\ n_train = 1 /\ n_eval = 1
        /\ ckpts = <<>> /\ saved_tr = <<>> /\ saved_va = <<>>

\* C6 witness: the run ended by the error.
C6_Witness ==
    /\ NoPatienceConfig
    /\ eng_pc = "raised" /\ eng_err = "ValueError" /\ n_eval = 1

----------------------------------------------------------------------------
(* Duration-to-frame expansion and post-processing: properties *)

\* Frames emitted for unit u, and the position of frame i within its unit.
UnitFrames(u) == {i \in 1..Len(frame_unit) : frame_unit[i] = u}

IndexInUnit(i) == Cardinality({j \in 1..(i - 1) : frame_unit[j] = frame_unit[i]})

RECURSIVE SumFrames(_)
SumFrames(k) == IF k = 0 THEN 0 ELSE Cardinality(UnitFrames(k)) + SumFrames(k - 1)

\* floor(d / s), ceil(d / s) and divisibility for a rational d > 0.
FloorDiv(d, s) == d.n \div (d.d * s)

CeilDiv(d, s) == (d.n + d.d * s - 1) \div (d.d * s)

IsMultiple(d, s) == d.n % (d.d * s) = 0

\* The expansion loop has left unit u.
UnitDone(u) == u \in 1..Len(dur) /\ u < t

QueryRel(i) == aco_inputs[i][Len(lab_codes[frame_unit[i]]) + 1]

\* C8: the k-th frame (k from 0) of a unit of duration d carries k*5/d: the
\* first frame carries 0, the values do not decrease within the unit, all lie
\* in [0, 1], the value 1 occurs only under synthesize with d a multiple of
\* the stride, and under att_synthesize every value is below 1.
C8_RelativePosition ==
    \A i \in 1..Len(aco_inputs) :
        LET u == frame_unit[i]
            k == IndexInUnit(i)
            rel == QueryRel(i)
            one == Rat(1, 1)
        IN  /\ RatEq(rel, Rat(k * Stride * dur[u].d, dur[u].n))
            /\ k = 0 => rel.n = 0
            /\ (i > 1 /\ frame_unit[i - 1] = u) => RatLe(QueryRel(i - 1), rel)
            /\ RatLe(Rat(0, 1), rel) /\ RatLe(rel, one)
            /\ RatEq(rel, one) => driver = "synthesize" /\ IsMultiple(dur[u], Stride)
            /\ driver = "att_synthesize" => RatLt(rel, one)

\* C8 witness: under the inclusive policy a unit's last frame reached 1 after
\* a first frame at 0 and an intermediate one.
C8_Witness ==
    /\ driver = "synthesize"
    /\ \E i \in 1..Len(aco_inputs) :
          /\ IndexInUnit(i) >= 2
          /\ RatEq(QueryRel(i), Rat(1, 1))
          /\ QueryRel(i - 2).n = 0

\* C9: every query is the label code of its unit followed by the frame's
\* relative position and by the unit's normalized duration; frames come in
\* blocks, in the order of the units.
C9_QueryComposition ==
    /\ Len(frame_unit) = Len(aco_inputs)
    /\ \A i \in 1..Len(aco_inputs) :
          LET u == frame_unit[i]
              n == Len(lab_codes[u])
              q == aco_inputs[i]
          IN  /\ Len(q) = n + 2
              /\ SubSeq(q, 1, n) = lab_codes[u]
              /\ RatEq(q[n + 1], Rat(IndexInUnit(i) * Stride * dur[u].d, dur[u].n))
              /\ q[n + 2] = ndurs[u]
              /\ i > 1 => frame_unit[i - 1] <= u
              /\ \A j \in 1..Len(aco_inputs) :
                    frame_unit[j] = u =>
                        /\ SubSeq(aco_inputs[j], 1, n) = SubSeq(q, 1, n)
                        /\ aco_inputs[j][n + 2] = q[n + 2]

\* C9 witness: two units with different codes and different normalized
\* durations have both been expanded, the first into several frames.
C9_Witness ==
    /\ syn_pc = "aco"
    /\ Len(lab_codes) = 2
    /\ lab_codes[1] # lab_codes[2]
    /\ ~RatEq(ndurs[1], ndurs[2])
    /\ Cardinality(UnitFrames(1)) >= 2
    /\ Cardinality(UnitFrames(2)) >= 1

\* C10: after post-processing, every frame whose rounded voicing value is 0
\* has spectral tilt 1000.0 and log-F0 -1e10, in the arrays handed to the
\* writer and in every fv / lf0 file written.
C10_UnvoicedPolicy ==
    /\ Len(fv) = Len(uv) /\ Len(lf0) = Len(uv)
    /\ \A i \in 1..Len(uv) :
          /\ uv[i] = NpRound(acot[i].uv)
          /\ uv[i] = 0 => fv[i] = FV_UNVOICED /\ lf0[i] = LF0_UNVOICED
    /\ \A f \in 1..Len(files) :
          /\ files[f].ext = "fv" =>
                \A i \in 1..Len(uv) : uv[i] = 0 => files[f].data[i] = FV_UNVOICED
          /\ files[f].ext = "lf0" =>
                \A i \in 1..Len(uv) : uv[i] = 0 => files[f].data[i] = LF0_UNVOICED

\* C10 witness: a tilt file was written in which an unvoiced frame, whose
\* model output was above the sentinel and whose voicing was 0.5 before
\* rounding, carries the sentinel next to a voiced frame.
C10_Witness ==
    /\ syn_pc = "done"
    /\ \E f \in 1..Len(files) :
          /\ files[f].ext = "fv"
          /\ \E i \in 1..Len(uv) :
                /\ uv[i] = 0 /\ acot[i].uv = 5 /\ acot[i].fv = 1200
                /\ files[f].data[i] = FV_UNVOICED
          /\ \E i \in 1..Len(uv) : uv[i] # 0

----------------------------------------------------------------------------
(* Epoch runners: multi-output loss logging *)

\* The batch index of the emission before the i-th one, -1 when there is none.
PrevLogB(i) == IF i = 1 THEN 0 - 1 ELSE log_records[i - 1].b

\* The forward calls of the interval the i-th emission closes.
CallsSince(i) ==
    {k \in 1..Len(fwd_log) :
        PrevLogB(i) < fwd_log[k].b /\ fwd_log[k].b <= log_records[i].b}

\* The speakers that had a batch in that interval.
SpeakersSince(i) == {fwd_log[k].spk : k \in CallsSince(i)}

\* The latest batch of speaker sp up to batch b.
LatestBatchOf(sp, b) ==
    CHOOSE x \in {fwd_log[k].b : k \in {j \in 1..Len(fwd_log) :
                                          fwd_log[j].spk = sp /\ fwd_log[j].b <= b}} :
        \A k \in 1..Len(fwd_log) :
            fwd_log[k].spk = sp /\ fwd_log[k].b <= b => fwd_log[k].b <= x

\* The values logged under name n, emission after emission.
LoggedUnder(n) ==
    LET rs == SelectSeq(log_records, LAMBDA r : n \in DOMAIN r.losses)
    IN [i \in 1..Len(rs) |-> rs[i].losses[n]]

\* The speakers of a composite record.
RecordSpeakers(r) == {sp \in Speakers : MoName(sp) \in DOMAIN r.losses}

\* C11: in multi-output training every speaker that had a batch since the
\* previous emission (or the start of the epoch) is in the next composite
\* record with the loss of its most recent batch, that value is appended to its
\* mo-<speaker>_tr_loss accumulator, and an epoch that ends has emitted after
\* its last batch, so no speaker is left without a record.
C11_NoSpeakerDropped ==
    /\ \A i \in 1..Len(log_records) :
          log_records[i].mo =>
             \A sp \in SpeakersSince(i) :
                /\ sp \in RecordSpeakers(log_records[i])
                /\ log_records[i].losses[MoName(sp)]
                      = Loss(LatestBatchOf(sp, log_records[i].b))
                /\ MoName(sp) \in DOMAIN epoch_losses
                /\ epoch_losses[MoName(sp)] = LoggedUnder(MoName(sp))
    /\ (runner \in TrainRunners /\ run_pc = "done" /\ mulout /\ fwd_log # <<>>) =>
          /\ log_records # <<>>
          /\ log_records[Len(log_records)].b = fwd_log[Len(fwd_log)].b

\* A composite record that closes an interval with both speakers in it, one of
\* them with two batches.
C11_Witness ==
    \E i \in 1..Len(log_records) :
       /\ log_records[i].mo
       /\ SpeakersSince(i) = Speakers
       /\ \E k1, k2 \in CallsSince(i) : k1 # k2 /\ fwd_log[k1].spk = fwd_log[k2].spk

\* C12: the composite record is reset after emission: the record emitted at a
\* logging point holds exactly the speakers that had a batch since the
\* previous emission.
C12_RecordReset ==
    \A i \in 1..Len(log_records) :
       log_records[i].mo => RecordSpeakers(log_records[i]) = SpeakersSince(i)

----------------------------------------------------------------------------
(* Epoch runners: recurrent state *)

\* The calls before the k-th one that were for the same speaker.
EarlierOfSpeaker(k) == {j \in 1..(k - 1) : fwd_log[j].spk = fwd_log[k].spk}

\* The latest of them.
PrevOfSpeaker(k) ==
    CHOOSE j \in EarlierOfSpeaker(k) : \A i \in EarlierOfSpeaker(k) : i <= j

\* C13: in the acoustic train and eval runners the hidden and output state
\* handed to the model at every batch have the batch dimension of that batch:
\* a state initialized at this batch was initialized with its size, any other
\* was repackaged to it, and no error comes from the state handling.
C13_StateBatchDim ==
    runner \in {"train_aco_epoch", "eval_aco_epoch"} =>
       /\ \A k \in 1..Len(fwd_log) :
             \A st \in {fwd_log[k].hid[1], fwd_log[k].out[1]} :
                /\ st.bsz = fwd_log[k].bsz
                /\ \/ st.src = "init" /\ st.b = fwd_log[k].b /\ ~st.detached
                   \/ st.detached /\ st.b < fwd_log[k].b
       /\ (run_pc = "raised" /\ fwd_log # <<>>) =>
             run_err \in {"AssertionError", "NotImplementedError", "KeyError"}

\* A speaker's cached state of another batch size was repackaged and handed on.
C13_Witness ==
    /\ runner \in {"train_aco_epoch", "eval_aco_epoch"}
    /\ run_pc = "done"
    /\ \E k \in 1..Len(fwd_log) :
          /\ fwd_log[k].hid[1].detached
          /\ fwd_log[k].hid[1].src = "model"
          /\ fwd_log[PrevOfSpeaker(k)].bsz # fwd_log[k].bsz

\* C14: acoustic training is per-speaker stateful for every model: the state
\* handed to the model is freshly initialized only at the first batch of a
\* speaker, and at every later batch of the speaker it is the repackaged state
\* the model returned at the speaker's previous batch.
C14_AcoStateful ==
    runner = "train_aco_epoch" =>
       \A k \in 1..Len(fwd_log) :
          IF EarlierOfSpeaker(k) = {}
          THEN fwd_log[k].hid[1] = InitState("hid", fwd_log[k].b, fwd_log[k].bsz)
          ELSE fwd_log[k].hid[1] =
                  repackage_hidden(ModelState("hid", fwd_log[PrevOfSpeaker(k)].b,
                                              fwd_log[PrevOfSpeaker(k)].bsz),
                                   fwd_log[k].bsz)

\* C15: stateful duration training initializes the state exactly once per
\* epoch, at batch 0, and at every later batch hands the model the detached
\* state it returned at the batch just before, with that batch's size.
C15_DurStateful ==
    (runner = "train_dur_epoch" /\ stateful) =>
       /\ init_log = IF fwd_log = <<>> THEN <<>> ELSE <<0>>
       /\ \A k \in 1..Len(fwd_log) :
             /\ fwd_log[k].b = k - 1
             /\ fwd_log[k].hid[1] =
                   IF k = 1 THEN InitState("hid", 0, fwd_log[1].bsz)
                   ELSE Detach(ModelState("hid", k - 2, fwd_log[k - 1].bsz))

\* A stateful epoch in which the state of one batch was carried into a later
\* batch of another size.
C15_Witness ==
    /\ runner = "train_dur_epoch"
    /\ stateful
    /\ \E k \in 2..Len(fwd_log) :
          /\ fwd_log[k].hid[1].detached
          /\ fwd_log[k].hid[1].bsz # fwd_log[k].bsz

\* C16: when the stateful option is absent or present with a false value, the
\* duration training state is freshly initialized at every batch and no state
\* the model returned is handed to it later.
C16_DurNotStateful ==
    (/\ runner = "train_dur_epoch"
     /\ "stateful" \in DOMAIN opts_in => ~opts_in["stateful"]) =>
       \A k \in 1..Len(fwd_log) :
          fwd_log[k].hid[1] = InitState("hid", fwd_log[k].b, fwd_log[k].bsz)

----------------------------------------------------------------------------
(* Epoch runners: options, cadence, evaluation *)

\* C17: in every epoch runner, when a key is left in the option mapping after
\* the recognized ones are consumed, the runner fails before it fetches the
\* first batch: no forward pass, no optimizer step, no accumulation.
C17_UnrecognizedFatal ==
    (runner \in Runners /\ (DOMAIN opts_in) \ Recognized(runner) # {}) =>
       /\ run_pc \in {"opts", "raised"}
       /\ run_pc = "raised" =>
             run_err \in {"AssertionError", "AttributeError", "ValueError"}
       /\ batch = <<>> /\ fwd_log = <<>> /\ init_log = <<>>
       /\ opt_log = <<>> /\ params = 0
       /\ preds = <<>> /\ metric_log = <<>>
       /\ epoch_losses = EmptyMap /\ log_records = <<>>

\* The assertion has failed on a key that another runner would have popped.
C17_Witness ==
    /\ runner = "eval_attaco_epoch"
    /\ run_pc = "raised"
    /\ run_err = "AssertionError"
    /\ DOMAIN tr_opts = {"mulout"}
    /\ DOMAIN opts_in = {"mulout", "idx2spk", "sil_id"}

\* The multi-output flag as the caller passed it: absent counts as false.
MuloutFlag == "mulout" \in DOMAIN opts_in /\ opts_in["mulout"]

\* The batches (1-based) after which the claimed cadence emits, among the
\* first n of the epoch.
ClaimedEmissions(n) ==
    LET period == IF MuloutFlag THEN log_freq * Cardinality(Speakers) ELSE log_freq
    IN {b \in 1..n : b % period = 0 \/ b = num_batches}

\* The batches (1-based) after which a record was emitted.
Emissions == {log_records[i].b + 1 : i \in 1..Len(log_records)}

\* ceil(n / d) for d > 0.
CeilOf(n, d) == (n + d - 1) \div d

\* C18: between batches of train_aco_epoch and train_dur_epoch the records
\* emitted so far are those after every batch that is a multiple of log_freq
\* (multi-output flag absent or false) or of log_freq times the number of
\* speakers (flag true), and after the final batch; a finished single-output
\* epoch has accumulated ceil(N / log_freq) tr_loss values.
C18_LogCadence ==
    (runner \in {"train_aco_epoch", "train_dur_epoch"} /\ run_pc \in {"loop", "done"}) =>
       /\ Emissions = ClaimedEmissions(b_idx)
       /\ (run_pc = "done" /\ ~MuloutFlag /\ num_batches > 0) =>
             /\ "tr_loss" \in DOMAIN epoch_losses
             /\ Len(epoch_losses["tr_loss"]) = CeilOf(num_batches, log_freq)

\* C19: an evaluation runner performs no gradient zeroing, backward pass or
\* optimizer step, and the parameters stay those the epoch started with.
C19_EvalNoUpdate ==
    runner \in EvalRunners => (opt_log = <<>> /\ params = 0)

\* A whole evaluation epoch of several batches, its metrics computed.
C19_Witness ==
    /\ runner \in EvalRunners
    /\ run_pc = "done"
    /\ Len(fwd_log) >= 2
    /\ metric_log # <<>>

\* The retained steps of the first n calls, in batch order.
RECURSIVE RetainedUpTo(_)
RetainedUpTo(n) ==
    IF n = 0 THEN <<>>
    ELSE RetainedUpTo(n - 1) \o Retained(fwd_log[n].b, fwd_log[n].slen, 1)

RECURSIVE SumSeq(_)
SumSeq(q) == IF q = <<>> THEN 0 ELSE q[1] + SumSeq(Tail(q))

\* The sum of the true sequence lengths of the first n batches.
RECURSIVE TrueLengths(_)
TrueLengths(n) ==
    IF n = 0 THEN 0 ELSE TrueLengths(n - 1) + SumSeq(fwd_log[n].slen)

\* C20: the evaluation buffer starts empty and after b batches holds the
\* retained steps of batches 1..b in order (its length the sum of their true
\* lengths); the metrics are computed once, after the last batch, over the
\* buffer of the whole epoch.
C20_GlobalMetrics ==
    runner \in EvalRunners =>
       /\ preds = RetainedUpTo(b_idx)
       /\ Len(preds) = TrueLengths(b_idx)
       /\ Len(metric_log) <= 1
       /\ metric_log # <<>> =>
             /\ b_idx = num_batches
             /\ metric_log[1].b = num_batches
             /\ metric_log[1].over = RetainedUpTo(num_batches)
             /\ metric_log[1].len = TrueLengths(num_batches)

\* The metrics of an epoch of several batches, one of them padded, another of
\* another size.
C20_Witness ==
    /\ runner \in {"eval_aco_epoch", "eval_dur_epoch"}
    /\ metric_log # <<>>
    /\ \E k1, k2 \in 1..Len(fwd_log) :
          fwd_log[k1].slen = <<2, 1>> /\ fwd_log[k2].slen = <<1>>
    /\ metric_log[1].len = Len(preds)

----------------------------------------------------------------------------
(* Epoch runners: evaluation results *)

\* What may follow a per-speaker prefix: a metric key and a metric suffix.
PerSpeakerTails ==
    {k \o suf : k \in Speakers \cup {m \o "." \o x : m \in {"A", "P", "R", "F"},
                                                    x \in Speakers \cup {"total"}},
                suf \in {"_va_mcd", "_va_afpr", "_va_f0rmse", "_va_rmse"}}

\* What may follow total_.
TotalTails ==
    {"aco_mcd", "nosil_aco_mcd", "aco_afpr", "nosil_aco_afpr", "aco_f0rmse",
     "nosil_aco_f0rmse", "dur_rmse", "nosil_dur_rmse"}

\* Key k is prefix pre followed by one of tails.
HasPrefix(k, pre, tails) == \E x \in tails : k = pre \o x

\* C21: every key of the mapping an evaluation runner returns is a per-speaker
\* key prefixed mo- (multi-output option set) or so- (not set), or an aggregate
\* key that starts with total_.
C21_ResultKeys ==
    (runner \in EvalRunners /\ result # <<>>) =>
       \A k \in result[1] :
          \/ mulout /\ HasPrefix(k, "mo-", PerSpeakerTails)
          \/ ~mulout /\ HasPrefix(k, "so-", PerSpeakerTails)
          \/ HasPrefix(k, "total_", TotalTails)

\* A call whose batch holds two different speaker ids.
MixedCall(k) == \E i \in 1..Len(fwd_log[k].spk_b) : fwd_log[k].spk_b[i] # fwd_log[k].spk_b[1]

\* C22: if a batch handed to the acoustic or the attention evaluation runner
\* holds two different speaker ids, the runner stops with an assertion failure
\* at that batch and returns no metrics.
C22_HomogeneityAsserted ==
    (runner \in {"eval_aco_epoch", "eval_attaco_epoch"}
        /\ \E k \in 1..Len(fwd_log) : MixedCall(k)) =>
       /\ result = <<>>
       /\ run_pc \in {"loop", "raised"}
       /\ (run_pc = "loop" => b_idx < Len(fwd_log))

----------------------------------------------------------------------------
(* Epoch runners: failures *)

\* C23: with the nll criterion train_aco_epoch raises NotImplementedError while
\* it processes the first batch, before any zero_grad, backward or step: no
\* parameter is updated, and no second batch is reached.
C23_NllRaises ==
    (runner = "train_aco_epoch" /\ crit_nll) =>
       /\ opt_log = <<>>
       /\ params = 0
       /\ b_idx = 0
       /\ Len(fwd_log) <= 1
       /\ (run_pc = "raised" /\ fwd_log # <<>>) => run_err = "NotImplementedError"
       /\ run_pc = "done" => num_batches = 0

\* The first batch of train_aco_epoch with nll went through the model and the
\* runner raised.
C23_Witness ==
    /\ runner = "train_aco_epoch"
    /\ crit_nll
    /\ Len(fwd_log) = 1
    /\ num_batches > 1
    /\ run_err = "NotImplementedError"

----------------------------------------------------------------------------
(* Epoch runners: lifetime of the recurrent states *)

\* Call k of the log got freshly initialized states.
FreshCall(k) ==
    /\ fwd_log[k].hid = <<InitState("hid", fwd_log[k].b, fwd_log[k].bsz)>>
    /\ fwd_log[k].out \in {<<>>, <<InitState("out", fwd_log[k].b, fwd_log[k].bsz)>>}

\* C24: in eval_aco_epoch with reset_batch_state, after every batch neither
\* cache holds an entry for that batch's speaker, every batch starts from
\* initialized states and the del never fails for a missing entry; without the
\* flag the caches hold every speaker seen so far in the epoch.
C24_ResetBatchState ==
    (runner = "eval_aco_epoch" /\ run_pc # "idle") =>
       /\ reset_batch_state =>
             /\ batch # <<>> => /\ batch[1].spk \notin DOMAIN spk2hid_states
                                /\ batch[1].spk \notin DOMAIN spk2out_states
             /\ \A k \in 1..Len(fwd_log) : FreshCall(k)
             /\ run_err # "KeyError"
       /\ ~reset_batch_state =>
             /\ DOMAIN spk2hid_states = {fwd_log[k].spk : k \in 1..Len(fwd_log)}
             /\ DOMAIN spk2out_states = {fwd_log[k].spk : k \in 1..Len(fwd_log)}

\* Two batches of one speaker went through eval_aco_epoch in reset mode, with a
\* single-output model.
C24_Witness ==
    /\ runner = "eval_aco_epoch"
    /\ reset_batch_state
    /\ ~mo_model
    /\ run_pc = "done"
    /\ \E k1, k2 \in 1..Len(fwd_log) : k1 < k2 /\ fwd_log[k1].spk = fwd_log[k2].spk

\* The runners that hand recurrent states to the model.
StateRunners == {"train_aco_epoch", "train_dur_epoch", "eval_aco_epoch", "eval_dur_epoch"}

\* Call k is the first call of its speaker in this epoch.
FirstOfSpeaker(k) == \A k0 \in 1..(k - 1) : fwd_log[k0].spk # fwd_log[k].spk

\* C25: no recurrent state survives an epoch boundary: in every epoch of every
\* runner the caches are empty before the first batch, and the first batch of
\* each speaker (batch 0 in stateful duration training) gets freshly
\* initialized states, whatever the earlier epoch left.
C25_NoStateAcrossEpochs ==
    (runner \in StateRunners /\ run_pc \in {"loop", "update", "finish", "done"}) =>
       /\ fwd_log = <<>> =>
             /\ spk2hid_states = EmptyMap
             /\ spk2out_states = EmptyMap
       /\ \A k \in 1..Len(fwd_log) :
             \/ ~(IF runner = "train_dur_epoch" THEN fwd_log[k].b = 0 ELSE FirstOfSpeaker(k))
             \/ FreshCall(k)

\* A multi-output acoustic runner is in its second epoch, after an epoch of two
\* batches or more whose states it saved, and a batch went through the model.
C25_Witness ==
    /\ runner \in {"train_aco_epoch", "eval_aco_epoch"}
    /\ mo_model
    /\ ~reset_batch_state
    /\ later_epoch
    /\ num_batches >= 2
    /\ fwd_log # <<>>
    /\ DOMAIN spk2hid_states # Speakers

----------------------------------------------------------------------------
(* Epoch runners: the log sink *)

----------------------------------------------------------------------------
(* Synthesis: durations and emission *)

\* The extensions of the files written so far, in order.
FileExts == [i \in 1..Len(files) |-> files[i].ext]

\* C27: after prediction and post-processing both drivers write the cc, lf0 and
\* fv files, then call the vocoder exactly once and never before the three
\* files are written, and the run completes without error.
C27_EmissionOrder ==
    /\ vocoder_calls <= 1
    /\ vocoder_calls = 1 => FileExts = <<"cc", "lf0", "fv">>
    /\ syn_pc = "done" => vocoder_calls = 1
    /\ uv # <<>> => syn_pc # "raised"

\* n * (max - min) + min, the inverse of (d - min) / (max - min).
InverseOfNorm(nd, stats) == Rat(nd.n * (stats.max - stats.min) + stats.min * nd.d, nd.d)

\* C28: the de-normalization of a predicted normalized duration n is
\* n * (max - min) + min, the inverse of the normalization: 0 gives min, 1 gives
\* max and every n in [0, 1] gives a duration in [min, max].
C28_DenormInverse ==
    (~force_dur /\ dur # <<>>) =>
       \A i \in 1..Len(dur) :
          /\ RatEq(dur[i], InverseOfNorm(ndurs[i], durstats))
          /\ (RatLe(Rat(0, 1), ndurs[i]) /\ RatLe(ndurs[i], Rat(1, 1))) =>
                /\ RatLe(Rat(durstats.min, 1), dur[i])
                /\ RatLe(dur[i], Rat(durstats.max, 1))

\* C29: with force_dur the duration model is never called (neither eval() nor
\* forward), the physical durations are those of the label timestamps, and the
\* normalized durations handed to the expander are (d - min) / (max - min);
\* without force_dur the duration model runs forward exactly once.
C29_ForcedDurations ==
    /\ force_dur =>
          /\ dur_model_calls = [eval |-> 0, forward |-> 0]
          /\ syn_pc # "durs" =>
                /\ Len(dur) = Len(tstamp_durs)
                /\ Len(ndurs) = Len(tstamp_durs)
                /\ \A i \in 1..Len(tstamp_durs) :
                      /\ RatEq(dur[i], Rat(tstamp_durs[i], 1))
                      /\ RatEq(ndurs[i], Rat(tstamp_durs[i] - durstats.min,
                                             durstats.max - durstats.min))
                /\ \A f \in 1..Len(aco_inputs) :
                      RatEq(aco_inputs[f][Len(aco_inputs[f])], ndurs[frame_unit[f]])
    /\ ~force_dur =>
          dur_model_calls.forward = IF syn_pc = "durs" THEN 0 ELSE 1

\* A forced-duration synthesis of two units emitted frames of both and went
\* through the acoustic model.
C29_Witness ==
    /\ force_dur
    /\ Len(tstamp_durs) = 2
    /\ tstamp_durs[1] # tstamp_durs[2]
    /\ \E f \in 1..Len(frame_unit) : frame_unit[f] = 2
    /\ acot # <<>>

\* C30: a runner whose speaker statistics are absent never de-normalizes: it
\* computes no metric and returns nothing, and where it reaches the
\* de-normalization it stops with an assertion failure; a training runner does
\* so while it processes the first batch, before any optimizer call.
C30_StatsRequired ==
    (runner \in Runners /\ run_pc \in {"loop", "update", "finish", "done", "raised"}
        /\ ~spk2stats) =>
       /\ nosil = <<>>
       /\ metric_log = <<>>
       /\ result = <<>>
       /\ (runner \in TrainRunners /\ MetricComputed) =>
             /\ opt_log = <<>>
             /\ b_idx = 0
             /\ Len(fwd_log) <= 1
             /\ run_pc = "done" => num_batches = 0
             /\ (run_pc = "raised" /\ fwd_log # <<>> /\ run_err # "TypeError") =>
                   run_err = "AssertionError"
       /\ runner \in EvalRunners =>
             /\ run_pc # "done"
             /\ (run_pc = "raised" /\ num_batches > 0 /\ Len(fwd_log) = num_batches
                    /\ b_idx = num_batches) =>
                   run_err = "AssertionError"

\* An acoustic training runner without statistics forwarded its first batch
\* and stopped at the assertion; more batches were to come.
C30_Witness ==
    /\ runner \in {"train_aco_epoch", "train_attaco_epoch"}
    /\ ~spk2stats
    /\ num_batches >= 2
    /\ Len(fwd_log) = 1
    /\ run_pc = "raised"
    /\ run_err = "AssertionError"

----------------------------------------------------------------------------
(* Epoch runners: configuration errors *)

\* C31: train_aco_epoch and train_dur_epoch called with the mulout option and
\* without idx2spk raise ValueError before any batch is processed.
C31_MuloutNeedsIdx2spk ==
    (runner \in {"train_aco_epoch", "train_dur_epoch"}
        /\ "mulout" \in DOMAIN opts_in
        /\ "idx2spk" \notin DOMAIN opts_in
        /\ run_pc # "opts") =>
       /\ run_pc = "raised"
       /\ run_err = "ValueError"
       /\ batch = <<>>
       /\ fwd_log = <<>>

----------------------------------------------------------------------------
(* Epoch runners: per-speaker states *)

\* State st handed over at call k was initialized for a batch of the speaker
\* of call k, this one or an earlier one, or was returned by the model on an
\* earlier batch of that speaker.
OwnState(k, st) ==
    \E k0 \in 1..k :
       /\ fwd_log[k0].b = st.b
       /\ fwd_log[k0].spk = fwd_log[k].spk
       /\ st.src = "model" => k0 < k

\* C32: in train_aco_epoch and eval_aco_epoch the states handed to the model
\* for a batch of a speaker were never produced by or initialized for a batch
\* of another speaker, and the two caches hold the same speakers, all of them
\* seen in the current epoch.
C32_SpeakerIsolation ==
    (runner \in {"train_aco_epoch", "eval_aco_epoch"}
        /\ run_pc \in {"loop", "update", "finish", "done", "raised"}) =>
       /\ \A k \in 1..Len(fwd_log) :
             /\ OwnState(k, fwd_log[k].hid[1])
             /\ OwnState(k, fwd_log[k].out[1])
             /\ fwd_log[k].hid[1].kind = "hid"
             /\ fwd_log[k].out[1].kind = "out"
       /\ DOMAIN spk2hid_states = DOMAIN spk2out_states
       /\ DOMAIN spk2hid_states \subseteq {fwd_log[k].spk : k \in 1..Len(fwd_log)}

\* Batches of spkA, spkB, spkA went through a multi-output acoustic runner; the
\* third got the state the model returned on the first.
C32_Witness ==
    /\ runner \in {"train_aco_epoch", "eval_aco_epoch"}
    /\ mo_model
    /\ Len(fwd_log) = 3
    /\ fwd_log[1].spk = "spkA"
    /\ fwd_log[2].spk = "spkB"
    /\ fwd_log[3].spk = "spkA"
    /\ fwd_log[3].hid[1].src = "model"
    /\ fwd_log[3].hid[1].b = 0
    /\ DOMAIN spk2hid_states = Speakers

----------------------------------------------------------------------------
(* train_engine: the patience counter, runs without monitoring, options *)

\* C33: the patience counter is never negative: for every eval_patience p >= 0
\* the counter stays within 0..p, and an epoch that did not improve goes on to
\* its checkpoint only with a counter above 0.
C33_PatienceNonNegative ==
    (eng_pc # "idle" /\ patience # <<>>) =>
       /\ 0 <= patience[1]
       /\ patience[1] <= eval_patience[1]
       /\ (eng_pc = "save" /\ eval_fn /\ eval_target /\ ~best_model) => patience[1] > 0

\* A run without monitoring: every epoch of range(epochs) runs and persists an
\* unflagged checkpoint, no validation history is recorded and the patience
\* value is left as given.
RunsEveryEpoch ==
    /\ eng_pc \notin {"stopped", "raised"}
    /\ patience = eval_patience
    /\ va_loss = <<>>
    /\ saved_va = <<>>
    /\ min_va_loss = Inf
    /\ n_train <= epochs
    /\ \A i \in 1..Len(ckpts) : ckpts[i].epoch = i - 1 /\ ~ckpts[i].best_val
    /\ Len(ckpts) = epoch
    /\ eng_pc = "done" =>
          /\ n_train = epochs
          /\ Len(ckpts) = epochs
          /\ n_eval = IF eval_fn THEN epochs ELSE 0

\* C34 (as claimed): without a monitored metric, with or without an evaluation
\* function, exactly `epochs` epochs run, each persists a checkpoint, none is
\* flagged best, no validation history is recorded and patience is untouched.
C34_NoMonitoring_asClaimed == (eng_pc # "idle" /\ ~eval_target) => RunsEveryEpoch

\* C34 (amended): the same, for runs that have a validation data source
\* whenever they have an evaluation function.
C34_NoMonitoring ==
    (eng_pc # "idle" /\ ~eval_target /\ (eval_fn => val_dloader)) => RunsEveryEpoch

\* A run with an evaluation function and no monitored metric has ended after
\* three epochs, a patience value being given.
C34_Witness ==
    /\ ~eval_target
    /\ eval_fn
    /\ val_dloader
    /\ eval_patience = <<1>>
    /\ epochs = 3
    /\ eng_pc = "done"
    /\ n_eval = 3
    /\ Len(ckpts) = 3

\* C35: every epoch's runner gets a fresh copy of the caller's options: in a
\* later epoch the runner starts from the mapping the caller passed, reads
\* from it the same options as the first epoch did, and never stops on a
\* missing or unrecognized option.
C35_FreshOptions ==
    (runner \in Runners /\ later_epoch) =>
       /\ run_pc = "opts" => tr_opts = opts_in
       /\ run_pc # "opts" =>
             /\ tr_opts = Pop(opts_in, Recognized(runner))
             /\ idx2spk = ("idx2spk" \in DOMAIN opts_in)
             /\ mulout = (PopsMulout /\ MuloutFlag)
             /\ stateful = (runner = "train_dur_epoch" /\ "stateful" \in DOMAIN opts_in)
             /\ runner \in {"train_aco_epoch", "train_attaco_epoch"} =>
                   spk2stats = ("spk2acostats" \in DOMAIN opts_in)
             /\ runner = "train_dur_epoch" =>
                   spk2stats = ("spk2durstats" \in DOMAIN opts_in)
       /\ run_pc = "raised" => fwd_log # <<>>

\* The second epoch of a training runner that was given three options is past
\* its prologue and has forwarded a batch.
C35_Witness ==
    /\ runner \in TrainRunners
    /\ later_epoch
    /\ Cardinality(DOMAIN opts_in) = 3
    /\ tr_opts = EmptyMap
    /\ idx2spk
    /\ fwd_log # <<>>

\* C36 as stated: for every frame whose rounded voicing value is not 0, the
\* spectral tilt and the log-F0 written equal the de-normalized, post-filtered
\* model output for that frame.
C36_VoicedUntouched_asClaimed ==
    /\ \A i \in 1..Len(uv) :
          uv[i] # 0 => fv[i] = acot[i].fv /\ lf0[i] = acot[i].lf0
    /\ \A f \in 1..Len(files) :
          /\ files[f].ext = "fv" =>
                \A i \in 1..Len(uv) : uv[i] # 0 => files[f].data[i] = acot[i].fv
          /\ files[f].ext = "lf0" =>
                \A i \in 1..Len(uv) : uv[i] # 0 => files[f].data[i] = acot[i].lf0

\* The tilt of a voiced frame after line 174 / 278: the model output, raised to
\* 1000.0 when it is below.
Floored(x) == IF x < FV_UNVOICED THEN FV_UNVOICED ELSE x

\* C36, amended: for every frame whose rounded voicing value is not 0, the
\* log-F0 written is the model output for that frame and the spectral tilt
\* written is the model output raised to the floor of 1000.0; the log-F0
\* sentinel is written for unvoiced frames only.
C36_VoicedUntouched ==
    /\ \A i \in 1..Len(uv) :
          uv[i] # 0 => fv[i] = Floored(acot[i].fv) /\ lf0[i] = acot[i].lf0
    /\ \A f \in 1..Len(files) :
          /\ files[f].ext = "fv" =>
                \A i \in 1..Len(uv) : uv[i] # 0 => files[f].data[i] = Floored(acot[i].fv)
          /\ files[f].ext = "lf0" =>
                \A i \in 1..Len(uv) : uv[i] # 0 => files[f].data[i] = acot[i].lf0

\* C36 witness: a tilt file was written that holds a voiced frame whose model
\* output was below 1000.0 and a voiced frame whose model output was above it.
C36_Witness ==
    /\ syn_pc = "done"
    /\ \E f \in 1..Len(files) :
          /\ files[f].ext = "fv"
          /\ \E i \in 1..Len(uv) :
                uv[i] # 0 /\ acot[i].fv < FV_UNVOICED /\ files[f].data[i] = FV_UNVOICED
          /\ \E i \in 1..Len(uv) :
                uv[i] # 0 /\ acot[i].fv > FV_UNVOICED /\ files[f].data[i] = acot[i].fv

\* C37: in the single-output training path with the metric computed, every
\* logging event appends one value to tr_loss and one to the metric
\* accumulator (tr_mcd / tr_rmse) and none raises, whatever the per-batch
\* no-silence metric values are (zero included): the two lists exist together
\* and have the same length after every event and at the end of the epoch.
C37_SoAccumulatorsAligned ==
    (runner \in TrainRunners /\ ~mulout /\ MetricComputed
        /\ run_pc \in {"loop", "update", "done", "raised"}) =>
       /\ ~(run_pc = "raised" /\ run_err = "KeyError"
              /\ "tr_loss" \in DOMAIN epoch_losses)
       /\ "tr_loss" \in DOMAIN epoch_losses =>
             /\ MetricName \in DOMAIN epoch_losses
             /\ Len(epoch_losses[MetricName]) = Len(epoch_losses["tr_loss"])

\* C38: the expansion loop is total: for every unit duration d >= 0 and either
\* boundary policy it ends without raising, and a unit with d < 0 emits no
\* frame and raises nothing.
C38_ExpanderTotal ==
    /\ ~(syn_pc = "raised" /\ syn_err = "ZeroDivisionError")
    /\ \A i \in 1..Len(frame_unit) : RatLe(Rat(0, 1), dur[frame_unit[i]])

\* The sum of the time-axis lengths of the first k forward calls of the epoch.
RECURSIVE TimeBefore(_)
TimeBefore(k) == IF k = 0 THEN 0 ELSE TimeBefore(k - 1) + TimeLen(fwd_log[k])

\* C39: in train_attaco_epoch, and in eval_attaco_epoch without
\* reset_batch_state, the positional offset passed to the model at a batch is
\* the sum of the time-axis lengths of the earlier batches of the same epoch
\* (0 at the first batch of every epoch, never decreasing); in
\* eval_attaco_epoch with reset_batch_state it is 0 at every batch.
C39_PositionalOffset ==
    runner \in {"train_attaco_epoch", "eval_attaco_epoch"} =>
       /\ \A k \in 1..Len(fwd_log) :
             fwd_log[k].pe = IF runner = "eval_attaco_epoch" /\ reset_batch_state
                             THEN 0 ELSE TimeBefore(k - 1)
       /\ \A k \in 2..Len(fwd_log) : fwd_log[k - 1].pe <= fwd_log[k].pe

\* C39 witness: in a later epoch the first batch was forwarded at offset 0 and,
\* after batches of two and of one time step, the third at offset 3.
C39_Witness ==
    /\ runner \in {"train_attaco_epoch", "eval_attaco_epoch"}
    /\ ~reset_batch_state
    /\ later_epoch
    /\ Len(fwd_log) = 3
    /\ fwd_log[1].pe = 0
    /\ TimeLen(fwd_log[1]) # TimeLen(fwd_log[2])
    /\ fwd_log[3].pe = 3

=============================================================================
